---------------------------- MODULE Spec2Model ----------------------------
(***************************************************************************)
(* Model of the voucher widget: the two page components of the repository. *)
(*   site B = src/unnamed/part_001 (philstar.com; per-article detail call  *)
(*            and a localStorage cache with expiry and a hidden flag)      *)
(*   site A = src/unnamed/part_000 (iprice.ph; codes read off the list     *)
(*            page, a persisted list of hidden codes, long-press refresh)  *)
(* A JavaScript string is a tuple of one-character strings, so that the    *)
(* string conversions of the code (replace, trim, toLowerCase, includes,   *)
(* startsWith) are computed and not assumed.                               *)
(***************************************************************************)
EXTENDS Integers, Sequences, FiniteSets, TLC

\* ------------------------------------------------------------------------
\* Bounds of the model
\* ------------------------------------------------------------------------
\* how many times the clock is advanced in one behaviour
MaxTicks == 1
\* site A: how many invocations of fetchGrabFoodVouchers can be in progress
MaxRunsA == 2
\* site A: how many long-press timeouts can be pending
MaxTimersA == 2

\* the custom vouchers the user keeps at most
MaxCustom == 2

\* the milliseconds the clock advances while the user edits custom vouchers
MaxClockMs == 1

\* ------------------------------------------------------------------------
\* State
\* ------------------------------------------------------------------------
VARIABLES
  variant,            \* which page component is loaded: "A" or "B"
  now,                \* Date.now()
  localStorage,
  isLoading,
  error,              \* "null" or the message shown
  discountArticles,
  extractedArticles,  \* the local list of the refresh in progress (site B)
  hiddenVouchers,     \* ids (site B) or codes (site A); the order is never read
  hiddenCategories,
  dialog,             \* the modal dialog that is open: "none", "hide", "force"
  voucherToHide,
  pending,            \* site B: what the refresh in progress awaits
  mode,               \* site B: "regular", or "forced" inside forceRefresh
  hiddenAtForce,      \* the hidden set when the forced refresh began
  cacheHits,          \* site B: the counters of the detail loop, as last logged
  apiFetches,
  runsA,              \* site A: the invocations of fetchGrabFoodVouchers in progress
  isLongPressing,     \* site A
  longPressTimer,     \* site A: TRUE when the variable holds a timer handle
  timersA,            \* site A: how many 4-second timeouts are pending
  storageFails,       \* localStorage.setItem throws (quota exceeded)
  customVouchers,
  editingVoucher,     \* the custom voucher of the form, or Null for a new one
  voucherToDelete

varsB == <<extractedArticles, pending, mode, hiddenAtForce, cacheHits, apiFetches>>

varsA == <<runsA, isLongPressing, longPressTimer, timersA>>

\* the environment of the storage and the custom voucher manager
varsC == <<storageFails, customVouchers, editingVoucher, voucherToDelete>>

vars == <<variant, now, localStorage, isLoading, error, discountArticles,
          extractedArticles, hiddenVouchers, hiddenCategories, dialog,
          voucherToHide, pending, mode, hiddenAtForce, cacheHits, apiFetches,
          runsA, isLongPressing, longPressTimer, timersA,
          storageFails, customVouchers, editingVoucher, voucherToDelete>>

\* ------------------------------------------------------------------------
\* JavaScript values
\* ------------------------------------------------------------------------
\* null and undefined: one-element tuples no character string can equal
Null == <<"<null>">>
Undefined == <<"<undefined>">>

UpperChars == <<"A","B","C","D","E","F","G","H","I","J","K","L","M",
                "N","O","P","Q","R","S","T","U","V","W","X","Y","Z">>
LowerChars == <<"a","b","c","d","e","f","g","h","i","j","k","l","m",
                "n","o","p","q","r","s","t","u","v","w","x","y","z">>
DigitChars == {"0","1","2","3","4","5","6","7","8","9"}

Range(s) == {s[i] : i \in DOMAIN s}

\* the character class [A-Za-z0-9]
IsAlnum(c) == c \in Range(UpperChars) \cup Range(LowerChars) \cup DigitChars

\* s.replace(/[^A-Za-z0-9]/g, "")
StripNonAlnum(s) == SelectSeq(s, IsAlnum)

ToLowerChar(c) ==
  IF \E i \in DOMAIN UpperChars : UpperChars[i] = c
  THEN LowerChars[CHOOSE i \in DOMAIN UpperChars : UpperChars[i] = c]
  ELSE c

\* s.toLowerCase()
ToLowerCase(s) == [i \in DOMAIN s |-> ToLowerChar(s[i])]

\* s.includes(needle)
Includes(s, needle) ==
  \E i \in 0..(Len(s) - Len(needle)) : SubSeq(s, i + 1, i + Len(needle)) = needle

\* s.startsWith(prefix)
StartsWith(s, prefix) ==
  Len(s) >= Len(prefix) /\ SubSeq(s, 1, Len(prefix)) = prefix

RECURSIVE TrimLeft(_)
TrimLeft(s) == IF s # <<>> /\ Head(s) = " " THEN TrimLeft(Tail(s)) ELSE s

RECURSIVE TrimRight(_)
TrimRight(s) ==
  IF s # <<>> /\ s[Len(s)] = " " THEN TrimRight(SubSeq(s, 1, Len(s) - 1)) ELSE s

\* s.trim()
Trim(s) == TrimRight(TrimLeft(s))

\* JavaScript truthiness of a string-or-null-or-undefined value
Truthy(v) == v # Null /\ v # Undefined /\ v # <<>>

\* a || b
OrElse(a, b) == IF Truthy(a) THEN a ELSE b

\* ------------------------------------------------------------------------
\* Time: Date.now() in milliseconds, kept as whole days plus milliseconds so
\* that 2 * 30 * 24 * 60 * 60 * 1000 ms is represented exactly
\* ------------------------------------------------------------------------
MsPerDay == 24 * 60 * 60 * 1000

\* CACHE_DURATION = 2 * 30 * 24 * 60 * 60 * 1000 ms = 2 * 30 days
CACHE_DURATION == [day |-> 2 * 30, ms |-> 0]

OneMs == [day |-> 0, ms |-> 1]

TimeAdd(t, d) ==
  [day |-> t.day + d.day + ((t.ms + d.ms) \div MsPerDay),
   ms  |-> (t.ms + d.ms) % MsPerDay]

\* t > u
TimeGreater(t, u) == t.day > u.day \/ (t.day = u.day /\ t.ms > u.ms)

\* ------------------------------------------------------------------------
\* localStorage: a function from the keys present to their parsed values
\* ------------------------------------------------------------------------
CACHE_KEY == <<"g","r","a","b","f","o","o","d","-","v","o","u","c","h","e","r",
               "-","c","a","c","h","e">>
CATEGORY_VISIBILITY_KEY == <<"v","o","u","c","h","e","r","-","c","a","t","e","g",
                             "o","r","y","-","v","i","s","i","b","i","l","i","t","y">>
HIDDEN_VOUCHERS_KEY == <<"h","i","d","d","e","n","-","v","o","u","c","h","e","r","s">>

\* `${CACHE_KEY}-${articleId}`
CacheKeyOf(articleId) == CACHE_KEY \o <<"-">> \o articleId

\* localStorage.setItem(key, JSON.stringify(value))
SetItem(ls, key, value) ==
  [k \in DOMAIN ls \cup {key} |-> IF k = key THEN value ELSE ls[k]]

\* try { localStorage.setItem(key, ...) } catch: a throwing setItem leaves the
\* storage as it is and the function goes on
TrySetItem(ls, key, value) == IF storageFails THEN ls ELSE SetItem(ls, key, value)

\* localStorage.removeItem(key)
RemoveItem(ls, key) == [k \in DOMAIN ls \ {key} |-> ls[k]]

\* localStorage.getItem(key) is non-null
HasItem(ls, key) == key \in DOMAIN ls

CUSTOM_VOUCHERS_KEY == <<"g","r","a","b","f","o","o","d","-","c","u","s","t","o","m",
                         "-","v","o","u","c","h","e","r","s">>

\* loadCustomVouchers: if (saved) customVouchers = JSON.parse(saved)
loadCustomVouchers(ls, cv) ==
  IF HasItem(ls, CUSTOM_VOUCHERS_KEY) THEN ls[CUSTOM_VOUCHERS_KEY] ELSE cv

\* saveCustomVouchers: the setItem is inside try/catch
saveCustomVouchers(ls, cv) == TrySetItem(ls, CUSTOM_VOUCHERS_KEY, cv)

\* ------------------------------------------------------------------------
\* Site B: cache management functions.  Each returns the value the function
\* returns (ret) and the storage it leaves (ls).
\* ------------------------------------------------------------------------
EXCLUDED_CODES == {<<"N","o","C","o","d","e","R","e","q","u","i","r","e","d">>,
                   <<"N","o","C","o","u","p","o","n","R","e","q","u","i","r","e","d">>}

shouldExcludeCode(code) == code \in EXCLUDED_CODES

\* a getter that already drops the entry at its expiry time: now >= expire
CacheExpiredFromExpiry(t, entry) == ~TimeGreater(entry.expire, t)

\* the expiry test of both getters: now > parsedCache.expire
CacheExpired(t, entry) == TimeGreater(t, entry.expire)

\* a getter's null result (a record, as the non-null results are)
NoData == [isNull |-> TRUE]

getCachedVoucherDataFull(ls, articleId, t) ==
  LET key == CacheKeyOf(articleId) IN
  IF ~HasItem(ls, key) THEN [ret |-> NoData, ls |-> ls]
  ELSE IF CacheExpired(t, ls[key]) THEN [ret |-> NoData, ls |-> RemoveItem(ls, key)]
  ELSE [ret |-> ls[key], ls |-> ls]

\* the VoucherData part of a cache entry
PayloadOf(entry) ==
  [code |-> entry.code, cta |-> entry.cta, headline |-> entry.headline,
   description |-> entry.description, merchantName |-> entry.merchantName]

\* a getter that answers null for an expired entry and leaves it stored
getCachedVoucherDataKeeping(ls, articleId, t) ==
  LET key == CacheKeyOf(articleId) IN
  IF ~HasItem(ls, key) \/ CacheExpired(t, ls[key]) THEN [ret |-> NoData, ls |-> ls]
  ELSE [ret |-> PayloadOf(ls[key]), ls |-> ls]

getCachedVoucherData(ls, articleId, t) ==
  LET key == CacheKeyOf(articleId) IN
  IF ~HasItem(ls, key) THEN [ret |-> NoData, ls |-> ls]
  ELSE IF CacheExpired(t, ls[key]) THEN [ret |-> NoData, ls |-> RemoveItem(ls, key)]
  ELSE [ret |-> PayloadOf(ls[key]), ls |-> ls]

\* existingCache?.hidden || false
PreservedHidden(existingCache) ==
  IF existingCache = NoData THEN FALSE ELSE existingCache.hidden

\* a put that keeps the expiry time of the entry it replaces
setCachedVoucherDataKeepingExpire(ls, articleId, data, t) ==
  LET existing == getCachedVoucherDataFull(ls, articleId, t)
      cacheData == [code |-> data.code, cta |-> data.cta, headline |-> data.headline,
                    description |-> data.description,
                    merchantName |-> data.merchantName,
                    expire |-> IF existing.ret = NoData
                               THEN TimeAdd(t, CACHE_DURATION)
                               ELSE existing.ret.expire,
                    hidden |-> PreservedHidden(existing.ret)]
  IN TrySetItem(existing.ls, CacheKeyOf(articleId), cacheData)

\* a put that stores a record only when it has a code
setCachedVoucherDataWithCode(ls, articleId, data, t) ==
  LET existing == getCachedVoucherDataFull(ls, articleId, t)
      cacheData == [code |-> data.code, cta |-> data.cta, headline |-> data.headline,
                    description |-> data.description,
                    merchantName |-> data.merchantName,
                    expire |-> TimeAdd(t, CACHE_DURATION),
                    hidden |-> PreservedHidden(existing.ret)]
  IN IF Truthy(data.code)
     THEN TrySetItem(existing.ls, CacheKeyOf(articleId), cacheData)
     ELSE existing.ls

\* returns the storage after the write
setCachedVoucherData(ls, articleId, data, t) ==
  LET existing == getCachedVoucherDataFull(ls, articleId, t)
      cacheData == [code |-> data.code, cta |-> data.cta, headline |-> data.headline,
                    description |-> data.description,
                    merchantName |-> data.merchantName,
                    expire |-> TimeAdd(t, CACHE_DURATION),
                    hidden |-> PreservedHidden(existing.ret)]
  IN TrySetItem(existing.ls, CacheKeyOf(articleId), cacheData)

\* a purge that compares the key with CACHE_KEY instead of its prefix
clearVoucherCacheExactKey(ls) ==
  [k \in {key \in DOMAIN ls : key # CACHE_KEY} |-> ls[k]]

\* a purge by the first word of CACHE_KEY
clearVoucherCacheByBrand(ls) ==
  [k \in {key \in DOMAIN ls : ~StartsWith(key, <<"g","r","a","b","f","o","o","d">>)}
     |-> ls[k]]

\* keys.forEach: remove every key that starts with CACHE_KEY
clearVoucherCache(ls) ==
  [k \in {key \in DOMAIN ls : ~StartsWith(key, CACHE_KEY)} |-> ls[k]]

\* ------------------------------------------------------------------------
\* Inputs: what the network can answer
\* ------------------------------------------------------------------------
\* id attributes of article[data-type="code"] elements, as they stand in the HTML
RawId1 == <<"v",":","1">>
RawId2 == <<"v","2">>
RawIdNone == <<>>

\* A list page of site B: the id attributes of its article[data-type="code"]
\* elements in document order (an element without an id attribute has "").
PagesB(target) ==
  IF target = 1 THEN { <<>>, <<RawId1>> }
  ELSE { <<>>, <<RawIdNone, RawId2>>, <<RawId1>> }

GrabFoodName == <<"G","r","a","b","F","o","o","d">>
FoodPandaName == <<"F","o","o","d","P","a","n","d","a">>
UnknownMerchant == <<"U","n","k","n","o","w","n"," ","m","e","r","c","h","a","n","t">>
NoHeadline == <<"N","o"," ","h","e","a","d","l","i","n","e">>
NoDescription == <<"N","o"," ","d","e","s","c","r","i","p","t","i","o","n">>
ViewOffer == <<"V","i","e","w"," ","O","f","f","e","r">>

\* JSON bodies of the detail endpoint (hasCta: the body has a cta object)
BodiesOfV1 ==
  { [code |-> <<"S","A","V","E","-","1","0">>, hasCta |-> TRUE,
     ctaHeading |-> <<"G","e","t">>, ctaValue |-> <<"1","0">>,
     headline |-> <<"H">>, title |-> Undefined,
     description |-> Undefined, content |-> <<"C">>,
     merchant |-> GrabFoodName],
    [code |-> Undefined, hasCta |-> FALSE,
     ctaHeading |-> Undefined, ctaValue |-> Undefined,
     headline |-> <<"H">>, title |-> Undefined,
     description |-> Undefined, content |-> Undefined,
     merchant |-> GrabFoodName] }

BodiesOfV2 ==
  { [code |-> <<"P","A","N","D","A">>, hasCta |-> TRUE,
     ctaHeading |-> <<>>, ctaValue |-> <<"5">>,
     headline |-> Undefined, title |-> <<"T">>,
     description |-> <<"D">>, content |-> Undefined,
     merchant |-> <<"f","o","o","d","p","a","n","d","a">>],
    [code |-> <<"N","o","-","C","o","d","e","-","R","e","q","u","i","r","e","d">>,
     hasCta |-> TRUE,
     ctaHeading |-> <<"G","o">>, ctaValue |-> <<>>,
     headline |-> Undefined, title |-> Undefined,
     description |-> Undefined, content |-> Undefined,
     merchant |-> Undefined] }

\* what the detail endpoint may hold for an article
DetailBodies(articleId) ==
  IF articleId = StripNonAlnum(RawId1) THEN BodiesOfV1 ELSE BodiesOfV2

\* no answer yet
Wait == "wait"

\* How an awaited fetch settles: response.ok, a non-2xx status, or a rejected
\* promise.  The body (await response.text(), await response.json()) is read
\* by the continuation.
FetchOutcomes == {"ok", "nonok", "reject"}

\* a body that response.json() rejects
BadJson == [invalid |-> TRUE]

\* what response.json() can make of an answer of the detail endpoint
DetailJson(articleId) == DetailBodies(articleId) \cup {BadJson}

\* targetUrls.length
NumTargets == 2

EmptyStorage == [k \in {} |-> NoData]

Categories == {"grabfood", "foodpanda"}

\* hiddenCategories = {}: no key is set
DefaultVisibility == [c \in Categories |-> "undefined"]

NoPending == [kind |-> "none", n |-> 0, resp |-> Wait]

\* ------------------------------------------------------------------------
\* Site B: the display list
\* ------------------------------------------------------------------------
\* hiddenCategories[category] as a condition
CategoryHidden(hc, category) == hc[category] = "true"

\* merchantName?.toLowerCase().includes(needle)
MerchantIncludes(merchantName, needle) ==
  /\ merchantName # Undefined
  /\ merchantName # Null
  /\ Includes(ToLowerCase(merchantName), needle)

\* a category filter that looks for "foodpanda" first
ShownByCategoryFoodpandaFirst(item, hc) ==
  IF MerchantIncludes(item.merchantName, <<"f","o","o","d","p","a","n","d","a">>)
  THEN ~CategoryHidden(hc, "foodpanda")
  ELSE IF \/ MerchantIncludes(item.merchantName, <<"g","r","a","b","f","o","o","d">>)
          \/ MerchantIncludes(item.merchantName, <<"g","r","a","b">>)
  THEN ~CategoryHidden(hc, "grabfood")
  ELSE TRUE

\* the category filter of combinedVouchers (site B)
ShownByCategoryB(item, hc) ==
  IF \/ MerchantIncludes(item.merchantName, <<"g","r","a","b","f","o","o","d">>)
     \/ MerchantIncludes(item.merchantName, <<"g","r","a","b">>)
  THEN ~CategoryHidden(hc, "grabfood")
  ELSE IF MerchantIncludes(item.merchantName, <<"f","o","o","d","p","a","n","d","a">>)
  THEN ~CategoryHidden(hc, "foodpanda")
  ELSE TRUE

\* excludedCodes.includes(article.couponCode || "")
CodeExcludedB(article) == OrElse(article.couponCode, <<>>) \in EXCLUDED_CODES

KeptByFilterB(article, hv) ==
  ~CodeExcludedB(article) /\ OrElse(article.id, <<>>) \notin hv

filteredDiscountArticlesB(articles, hv) ==
  SelectSeq(articles, LAMBDA a : KeptByFilterB(a, hv))

\* the scraped part of combinedVouchers
ScrapedDisplayB(articles, hv, hc) ==
  SelectSeq(filteredDiscountArticlesB(articles, hv),
            LAMBDA a : ShownByCategoryB(a, hc))

NoCodeFound == <<"N","o"," ","c","o","d","e"," ","f","o","u","n","d">>

\* {#if voucher.voucherCode}: the voucher is rendered as a card with its code
Actionable(voucher) == Truthy(voucher.couponCode)

validGrabFoodVouchersB(articles, hv) ==
  Cardinality({i \in DOMAIN filteredDiscountArticlesB(articles, hv) :
     LET a == filteredDiscountArticlesB(articles, hv)[i] IN
       /\ Truthy(a.couponCode) /\ Trim(a.couponCode) # <<>>
       /\ a.couponCode # NoCodeFound
       /\ \/ MerchantIncludes(a.merchantName, <<"g","r","a","b","f","o","o","d">>)
          \/ MerchantIncludes(a.merchantName, <<"g","r","a","b">>)})

validFoodPandaVouchersB(articles, hv) ==
  Cardinality({i \in DOMAIN filteredDiscountArticlesB(articles, hv) :
     LET a == filteredDiscountArticlesB(articles, hv)[i] IN
       /\ Truthy(a.couponCode) /\ Trim(a.couponCode) # <<>>
       /\ a.couponCode # NoCodeFound
       /\ MerchantIncludes(a.merchantName, <<"f","o","o","d","p","a","n","d","a">>)})

\* ------------------------------------------------------------------------
\* Site B: extraction, detail decoding, hiding, categories
\* ------------------------------------------------------------------------
\* the article pushed for one element (title and content are placeholders
\* that nothing reads back; merchantName comes from the detail call)
NewArticleB(id) ==
  [id |-> id, couponCode |-> Undefined, cta |-> ViewOffer,
   headline |-> Undefined, description |-> Undefined, merchantName |-> Undefined]

\* discountElements.forEach: one article per element whose stripped id is not ""
ExtractB(html) ==
  SelectSeq([i \in DOMAIN html |-> NewArticleB(StripNonAlnum(html[i]))],
            LAMBDA a : a.id # <<>>)

\* the code fetchVoucherCode keeps: stripped, and null when absent or excluded
CleanCode(rawCode) ==
  IF Truthy(rawCode) /\ ~shouldExcludeCode(StripNonAlnum(rawCode))
  THEN StripNonAlnum(rawCode)
  ELSE Null

\* a fetchVoucherCode that answers a failure with a placeholder record
DecodeDetailPlaceholder(outcome, body) ==
  IF outcome # "ok" \/ body = BadJson \/ ~body.hasCta
  THEN [code |-> Null, cta |-> <<>>, headline |-> NoHeadline,
        description |-> NoDescription, merchantName |-> UnknownMerchant]
  ELSE [code |-> CleanCode(body.code),
        cta |-> Trim(body.ctaHeading \o <<" ">> \o body.ctaValue),
        headline |-> OrElse(body.headline, OrElse(body.title, NoHeadline)),
        description |-> OrElse(body.description, OrElse(body.content, NoDescription)),
        merchantName |-> OrElse(body.merchant, UnknownMerchant)]

\* what fetchVoucherCode makes of the answer to its request; NoData is its null
\* (non-2xx, rejected fetch, invalid JSON, or data.cta missing: the TypeError
\* is caught)
DecodeDetail(outcome, body) ==
  IF outcome # "ok" THEN NoData
  ELSE IF body = BadJson THEN NoData
  ELSE IF ~body.hasCta THEN NoData
  ELSE [code |-> CleanCode(body.code),
        cta |-> Trim(body.ctaHeading \o <<" ">> \o body.ctaValue),
        headline |-> OrElse(body.headline, OrElse(body.title, NoHeadline)),
        description |-> OrElse(body.description, OrElse(body.content, NoDescription)),
        merchantName |-> OrElse(body.merchant, UnknownMerchant)]

\* a splice that takes the code and leaves the other fields of the candidate
SpliceCodeOnly(articles, i, data) ==
  IF data # NoData /\ Truthy(data.code)
  THEN [articles EXCEPT ![i].couponCode = data.code]
  ELSE articles

\* if (data.code) { discountArticles[i].couponCode = data.code; ... }
SpliceB(articles, i, data) ==
  IF data # NoData /\ Truthy(data.code)
  THEN [articles EXCEPT ![i] =
          [id |-> @.id, couponCode |-> data.code, cta |-> data.cta,
           headline |-> data.headline, description |-> data.description,
           merchantName |-> data.merchantName]]
  ELSE articles

\* a detail loop that does not consult the cache
LookupSkippingCache(ls, articleId, t) == [ret |-> NoData, ls |-> ls]

\* a lookup that takes the entry it read out of the store
LookupDroppingEntry(ls, articleId, t) ==
  [ret |-> getCachedVoucherData(ls, articleId, t).ret,
   ls |-> RemoveItem(ls, CacheKeyOf(articleId))]

\* the cache lookup that decides between the two branches of the loop body
LookupForResolve(ls, articleId, t) == getCachedVoucherData(ls, articleId, t)

\* The detail loop from index i up to its next await: cache hits are spliced
\* one after the other without suspension; the first miss issues the detail
\* request (miss = TRUE, at index i), the end of the list ends the refresh.

RECURSIVE ResolveFrom(_, _, _, _, _)
ResolveFrom(ls, articles, i, t, hits) ==
  IF i > Len(articles)
  THEN [ls |-> ls, articles |-> articles, i |-> i, miss |-> FALSE, hits |-> hits]
  ELSE LET got == LookupForResolve(ls, articles[i].id, t) IN
       IF got.ret # NoData
       THEN ResolveFrom(got.ls, SpliceB(articles, i, got.ret), i + 1, t, hits + 1)
       ELSE \* fetchVoucherCode looks the cache up once more before it fetches
            [ls |-> getCachedVoucherData(got.ls, articles[i].id, t).ls,
             articles |-> articles, i |-> i, miss |-> TRUE, hits |-> hits]

\* a hideVoucher that writes the minimal entry over whatever is cached
hideVoucherMinimal(ls, hv, voucherId, t) ==
  IF voucherId \in hv THEN [ls |-> ls, hv |-> hv, threw |-> FALSE]
  ELSE LET got == getCachedVoucherDataFull(ls, voucherId, t)
           updatedCache ==
             [code |-> Null, cta |-> Undefined, headline |-> Undefined,
              description |-> Undefined, merchantName |-> Undefined,
              expire |-> TimeAdd(t, CACHE_DURATION), hidden |-> TRUE]
       IN IF storageFails
          THEN [ls |-> got.ls, hv |-> hv, threw |-> TRUE]
          ELSE [ls |-> SetItem(got.ls, CacheKeyOf(voucherId), updatedCache),
                hv |-> hv \cup {voucherId}, threw |-> FALSE]

\* hideVoucher(voucherId): the storage and the hidden set it leaves, and
\* whether it threw (setItem is not guarded, and it comes before the
\* assignment to hiddenVouchers)
hideVoucherB(ls, hv, voucherId, t) ==
  IF voucherId \in hv THEN [ls |-> ls, hv |-> hv, threw |-> FALSE]
  ELSE LET got == getCachedVoucherDataFull(ls, voucherId, t)
           cachedData ==
             IF got.ret = NoData
             THEN [code |-> Null, cta |-> Undefined, headline |-> Undefined,
                   description |-> Undefined, merchantName |-> Undefined,
                   expire |-> TimeAdd(t, CACHE_DURATION), hidden |-> FALSE]
             ELSE got.ret
           updatedCache ==
             [cachedData EXCEPT !.expire = TimeAdd(t, CACHE_DURATION),
                                !.hidden = TRUE]
       IN IF storageFails
          THEN [ls |-> got.ls, hv |-> hv, threw |-> TRUE]
          ELSE [ls |-> SetItem(got.ls, CacheKeyOf(voucherId), updatedCache),
                hv |-> hv \cup {voucherId}, threw |-> FALSE]

\* a loader that strips the prefix but not the dash that follows it
loadHiddenVouchersKeepingDash(ls) ==
  { SubSeq(key, Len(CACHE_KEY) + 1, Len(key)) :
      key \in {k \in DOMAIN ls : StartsWith(k, CACHE_KEY) /\ ls[k].hidden} }

\* loadHiddenVouchers: the ids of the cache keys whose entry has hidden set
loadHiddenVouchersB(ls) ==
  { SubSeq(key, Len(CACHE_KEY) + 2, Len(key)) :
      key \in {k \in DOMAIN ls : StartsWith(k, CACHE_KEY) /\ ls[k].hidden} }

\* loadCategoryVisibility
loadCategoryVisibility(ls, hc) ==
  IF HasItem(ls, CATEGORY_VISIBILITY_KEY) THEN ls[CATEGORY_VISIBILITY_KEY] ELSE hc

OtherCategory(category) == IF category = "grabfood" THEN "foodpanda" ELSE "grabfood"

\* a toggle that leaves the other category as it is
toggleCategoryVisibilityAlone(hc, category) ==
  [hc EXCEPT ![category] = IF CategoryHidden(hc, category) THEN "false" ELSE "true"]

\* toggleCategoryVisibility, before saveCategoryVisibility
toggleCategoryVisibility(hc, category) ==
  IF category = "grabfood" \/ category = "foodpanda"
  THEN IF CategoryHidden(hc, category)
       THEN [hc EXCEPT ![category] = "false"]
       ELSE [hc EXCEPT ![category] = "true", ![OtherCategory(category)] = "false"]
  ELSE [hc EXCEPT ![category] = IF CategoryHidden(hc, category) THEN "false" ELSE "true"]

\* ------------------------------------------------------------------------
\* Site B: the refresh (fetchGrabFoodVouchers), one action per stretch of
\* code between two awaits
\* ------------------------------------------------------------------------
ErrorMessage == "Failed to fetch"

\* a loop that throws on every answer that is not response.ok
FetchThrowsUnlessOk(outcome) == outcome # "ok"

\* await fetch(proxyUrl) throws when the fetch promise rejects; a response
\* with any status resolves it
FetchThrows(outcome) == outcome = "reject"

\* response.ok
ResponseOk(outcome) == outcome = "ok"

\* fetchGrabFoodVouchers from its first line to the first await fetch
BeginFetchB ==
  /\ isLoading' = TRUE
  /\ error' = "null"
  /\ extractedArticles' = <<>>
  /\ cacheHits' = 0
  /\ apiFetches' = 0
  /\ pending' = [kind |-> "list", n |-> 1, resp |-> Wait]

\* lines 602-661 from the end of the target loop: publish the candidates and
\* run the detail loop up to its first await, or to the finally block
PublishAndResolveB(ls, articles, i, hits, fetches) ==
  LET r == ResolveFrom(ls, articles, i, now, hits) IN
  /\ localStorage' = r.ls
  /\ discountArticles' = r.articles
  /\ cacheHits' = r.hits
  /\ apiFetches' = IF r.miss THEN fetches + 1 ELSE fetches
  /\ IF r.miss
     THEN /\ pending' = [kind |-> "detail", n |-> r.i, resp |-> Wait]
          /\ extractedArticles' = r.articles
          /\ isLoading' = isLoading
     ELSE /\ pending' = NoPending
          /\ extractedArticles' = <<>>
          /\ isLoading' = FALSE

\* the network answers the request in flight
B_Respond ==
  /\ variant = "B"
  /\ pending.kind \in {"list", "detail"}
  /\ pending.resp = Wait
  /\ \E outcome \in FetchOutcomes : pending' = [pending EXCEPT !.resp = outcome]
  /\ UNCHANGED <<variant, now, localStorage, isLoading, error, discountArticles,
                 extractedArticles, hiddenVouchers, hiddenCategories, dialog,
                 voucherToHide, mode, hiddenAtForce,
                 cacheHits, apiFetches, varsA, varsC>>

\* the target loop resumes with the answer to a list-page fetch
B_ListSettled ==
  /\ variant = "B"
  /\ pending.kind = "list"
  /\ pending.resp # Wait
  /\ IF FetchThrows(pending.resp)
     THEN \* catch (err) and finally
          /\ error' = ErrorMessage
          /\ isLoading' = FALSE
          /\ pending' = NoPending
          /\ extractedArticles' = <<>>
          /\ UNCHANGED <<localStorage, discountArticles, cacheHits, apiFetches>>
     ELSE \E html \in (IF ResponseOk(pending.resp) THEN PagesB(pending.n) ELSE {<<>>}) :
          LET found == IF ResponseOk(pending.resp)
                       THEN extractedArticles \o ExtractB(html)
                       ELSE extractedArticles   \* !response.ok: continue
          IN /\ error' = error
             /\ IF pending.n < NumTargets
                THEN /\ pending' = [kind |-> "list", n |-> pending.n + 1, resp |-> Wait]
                     /\ extractedArticles' = found
                     /\ UNCHANGED <<localStorage, discountArticles, isLoading,
                                    cacheHits, apiFetches>>
                ELSE PublishAndResolveB(localStorage, found, 1, 0, 0)
  /\ UNCHANGED <<variant, now, hiddenVouchers, hiddenCategories, dialog,
                 voucherToHide, mode, hiddenAtForce, varsA, varsC>>

\* fetchVoucherCode resumes with the answer, caches what it decoded, and the
\* loop splices it and starts the 500 ms delay
DetailSettledWith(body) ==
  /\ variant = "B"
  /\ pending.kind = "detail"
  /\ pending.resp # Wait
  /\ LET data == DecodeDetail(pending.resp, body)
         id == extractedArticles[pending.n].id
     IN /\ localStorage' = IF data = NoData THEN localStorage
                           ELSE setCachedVoucherData(localStorage, id, data, now)
        /\ discountArticles' = SpliceB(discountArticles, pending.n, data)
        /\ extractedArticles' = SpliceB(discountArticles, pending.n, data)
  /\ pending' = [kind |-> "delay", n |-> pending.n, resp |-> Wait]
  /\ UNCHANGED <<variant, now, isLoading, error, hiddenVouchers, hiddenCategories,
                 dialog, voucherToHide, mode, hiddenAtForce,
                 cacheHits, apiFetches, varsA, varsC>>

\* the bodies the answer in flight can carry
DetailAnswers ==
  IF pending.resp = "ok" THEN DetailJson(extractedArticles[pending.n].id)
  ELSE {BadJson}

B_DetailSettled ==
  /\ pending.kind = "detail"
  /\ \E body \in DetailAnswers : DetailSettledWith(body)

\* the delay after a detail request is over: the loop goes on with i + 1
B_DelayElapsed ==
  /\ variant = "B"
  /\ pending.kind = "delay"
  /\ PublishAndResolveB(localStorage, discountArticles, pending.n + 1,
                        cacheHits, apiFetches)
  /\ UNCHANGED <<variant, now, error, hiddenVouchers, hiddenCategories, dialog,
                 voucherToHide, mode, hiddenAtForce, varsA, varsC>>

\* ------------------------------------------------------------------------
\* Site B: what the user can do
\* ------------------------------------------------------------------------
\* the Refresh button (disabled while isLoading)
B_ClickRefresh ==
  /\ variant = "B"
  /\ dialog = "none"
  /\ ~isLoading
  /\ BeginFetchB
  /\ mode' = "regular"
  /\ hiddenAtForce' = {}
  /\ UNCHANGED <<variant, now, localStorage, discountArticles, hiddenVouchers,
                 hiddenCategories, dialog, voucherToHide, varsA, varsC>>

\* the Try Again button of the error box
B_ClickTryAgain ==
  /\ variant = "B"
  /\ dialog = "none"
  /\ error # "null"
  /\ BeginFetchB
  /\ mode' = "regular"
  /\ hiddenAtForce' = {}
  /\ UNCHANGED <<variant, now, localStorage, discountArticles, hiddenVouchers,
                 hiddenCategories, dialog, voucherToHide, varsA, varsC>>

\* the Force button (disabled while isLoading): confirmForceRefresh
B_ConfirmForceRefresh ==
  /\ variant = "B"
  /\ dialog = "none"
  /\ ~isLoading
  /\ dialog' = "force"
  /\ UNCHANGED <<variant, now, localStorage, isLoading, error, discountArticles,
                 extractedArticles, hiddenVouchers, hiddenCategories,
                 voucherToHide, pending, mode, hiddenAtForce,
                 cacheHits, apiFetches, varsA, varsC>>

\* handleForceRefreshConfirm: forceRefresh up to the first await fetch
B_HandleForceRefreshConfirm ==
  /\ variant = "B"
  /\ dialog = "force"
  /\ dialog' = "none"
  /\ localStorage' = RemoveItem(clearVoucherCache(localStorage), CATEGORY_VISIBILITY_KEY)
  /\ hiddenCategories' = DefaultVisibility
  /\ BeginFetchB
  /\ mode' = "forced"
  /\ hiddenAtForce' = hiddenVouchers
  /\ UNCHANGED <<variant, now, discountArticles, hiddenVouchers, voucherToHide, varsA, varsC>>

B_HandleForceRefreshCancel ==
  /\ variant = "B"
  /\ dialog = "force"
  /\ dialog' = "none"
  /\ UNCHANGED <<variant, now, localStorage, isLoading, error, discountArticles,
                 extractedArticles, hiddenVouchers, hiddenCategories,
                 voucherToHide, pending, mode, hiddenAtForce,
                 cacheHits, apiFetches, varsA, varsC>>

\* the Hide button of a scraped voucher card: shown for a voucher of the
\* display list with a code and some text, when no error is shown
HideOfferedB(voucher) ==
  /\ Actionable(voucher)
  /\ Truthy(voucher.cta) \/ Truthy(voucher.headline) \/ Truthy(voucher.description)

B_ConfirmHideVoucher ==
  /\ variant = "B"
  /\ dialog = "none"
  /\ error = "null"
  /\ \E v \in Range(ScrapedDisplayB(discountArticles, hiddenVouchers, hiddenCategories)) :
       /\ HideOfferedB(v)
       /\ voucherToHide' = v.id
  /\ dialog' = "hide"
  /\ UNCHANGED <<variant, now, localStorage, isLoading, error, discountArticles,
                 extractedArticles, hiddenVouchers, hiddenCategories,
                 pending, mode, hiddenAtForce,
                 cacheHits, apiFetches, varsA, varsC>>

B_HandleHideConfirm ==
  /\ variant = "B"
  /\ dialog = "hide"
  /\ LET h == hideVoucherB(localStorage, hiddenVouchers, voucherToHide, now) IN
       /\ localStorage' = h.ls
       /\ hiddenVouchers' = h.hv
       \* an exception leaves the handler before the last two statements
       /\ voucherToHide' = IF h.threw THEN voucherToHide ELSE Null
       /\ dialog' = IF h.threw THEN dialog ELSE "none"
  /\ UNCHANGED <<variant, now, isLoading, error, discountArticles, extractedArticles,
                 hiddenCategories, pending, mode, hiddenAtForce,
                 cacheHits, apiFetches, varsA, varsC>>

B_HandleHideCancel ==
  /\ variant = "B"
  /\ dialog = "hide"
  /\ voucherToHide' = Null
  /\ dialog' = "none"
  /\ UNCHANGED <<variant, now, localStorage, isLoading, error, discountArticles,
                 extractedArticles, hiddenVouchers, hiddenCategories,
                 pending, mode, hiddenAtForce,
                 cacheHits, apiFetches, varsA, varsC>>

\* the two category buttons of the header, each shown while its count is > 0
B_ToggleCategory ==
  /\ variant = "B"
  /\ dialog = "none"
  /\ \E category \in Categories :
       /\ IF category = "grabfood"
          THEN validGrabFoodVouchersB(discountArticles, hiddenVouchers) > 0
          ELSE validFoodPandaVouchersB(discountArticles, hiddenVouchers) > 0
       /\ hiddenCategories' = toggleCategoryVisibility(hiddenCategories, category)
       /\ localStorage' = TrySetItem(localStorage, CATEGORY_VISIBILITY_KEY,
                                     toggleCategoryVisibility(hiddenCategories, category))
  /\ UNCHANGED <<variant, now, isLoading, error, discountArticles, extractedArticles,
                 hiddenVouchers, dialog, voucherToHide, pending, mode, hiddenAtForce,
                 cacheHits, apiFetches, varsA, varsC>>

\* the page is loaded again: the component state starts afresh and onMount runs
\* fetchGrabFoodVouchers, loadHiddenVouchers, loadCategoryVisibility
B_Reload ==
  /\ variant = "B"
  /\ BeginFetchB
  /\ discountArticles' = <<>>
  /\ hiddenVouchers' = loadHiddenVouchersB(localStorage)
  /\ hiddenCategories' = loadCategoryVisibility(localStorage, DefaultVisibility)
  /\ dialog' = "none"
  /\ voucherToHide' = Null
  /\ mode' = "regular"
  /\ hiddenAtForce' = {}
  /\ customVouchers' = loadCustomVouchers(localStorage, <<>>)
  /\ editingVoucher' = NoData
  /\ voucherToDelete' = NoData
  /\ UNCHANGED <<variant, now, localStorage, varsA, storageFails>>

\* ------------------------------------------------------------------------
\* Site A (src/unnamed/part_000)
\* ------------------------------------------------------------------------
Save10 == <<"S","A","V","E","1","0">>
NoCodeRequired == <<"N","o","C","o","d","e","R","e","q","u","i","r","e","d">>
NoDescriptionFound == <<"N","o"," ","d","e","s","c","r","i","p","t","i","o","n",
                        " ","f","o","u","n","d">>

\* A list page of site A: the data-clipboard-text values of its elements in
\* document order.
PagesA(target) ==
  IF target = 1 THEN { <<>>, <<Save10, <<>>, NoCodeRequired>> }
  ELSE { <<>>, <<<<>>, Save10>> }

\* targetUrl.includes("grabfood") of the two target URLs, in order
TargetIsGrabfood(target) == target = 1

Digits == <<"0","1","2","3","4","5","6","7","8","9">>

\* `voucher-${targetUrl.includes("grabfood") ? "grabfood" : "foodpanda"}-${index}`
VoucherIdA(target, index) ==
  <<"v","o","u","c","h","e","r","-">>
    \o (IF TargetIsGrabfood(target) THEN <<"g","r","a","b","f","o","o","d">>
        ELSE <<"f","o","o","d","p","a","n","d","a">>)
    \o <<"-", Digits[index + 1]>>

\* the article pushed for the element at index (0-based) of a page; its
\* content, shown as the description, is a placeholder here
NewArticleA(target, index, voucherCode) ==
  [id |-> VoucherIdA(target, index), couponCode |-> voucherCode,
   cta |-> Undefined, headline |-> Undefined,
   description |-> NoDescriptionFound,
   merchantName |-> IF TargetIsGrabfood(target) THEN GrabFoodName
                    ELSE <<"F","o","o","d","P","a","n","d","a">>]

\* voucherElements.forEach: one article per element with a non-empty code
ExtractA(target, html) ==
  SelectSeq([i \in DOMAIN html |-> NewArticleA(target, i - 1, html[i])],
            LAMBDA a : Truthy(a.couponCode))

\* !hiddenVouchers.includes(article.couponCode || "")
filteredDiscountArticlesA(articles, hv) ==
  SelectSeq(articles, LAMBDA a : OrElse(a.couponCode, <<>>) \notin hv)

\* the category filter of combinedVouchers (site A)
ShownByCategoryA(item, hc) ==
  IF MerchantIncludes(item.merchantName, <<"g","r","a","b","f","o","o","d">>)
  THEN ~CategoryHidden(hc, "grabfood")
  ELSE IF MerchantIncludes(item.merchantName, <<"f","o","o","d","p","a","n","d","a">>)
  THEN ~CategoryHidden(hc, "foodpanda")
  ELSE TRUE

\* the scraped part of combinedVouchers
ScrapedDisplayA(articles, hv, hc) ==
  SelectSeq(filteredDiscountArticlesA(articles, hv),
            LAMBDA a : ShownByCategoryA(a, hc))

validVouchersA(articles, hv, needle) ==
  Cardinality({i \in DOMAIN filteredDiscountArticlesA(articles, hv) :
     LET a == filteredDiscountArticlesA(articles, hv)[i] IN
       /\ Truthy(a.couponCode) /\ Trim(a.couponCode) # <<>>
       /\ MerchantIncludes(a.merchantName, needle)})

\* loadHiddenVouchers
loadHiddenVouchersA(ls) ==
  IF HasItem(ls, HIDDEN_VOUCHERS_KEY) THEN ls[HIDDEN_VOUCHERS_KEY] ELSE {}

\* hideVoucher(voucherCode): the assignment to hiddenVouchers comes first,
\* then the unguarded setItem
hideVoucherA(ls, hv, voucherCode) ==
  IF voucherCode \in hv THEN [ls |-> ls, hv |-> hv, threw |-> FALSE]
  ELSE IF storageFails
  THEN [ls |-> ls, hv |-> hv \cup {voucherCode}, threw |-> TRUE]
  ELSE [ls |-> SetItem(ls, HIDDEN_VOUCHERS_KEY, hv \cup {voucherCode}),
        hv |-> hv \cup {voucherCode}, threw |-> FALSE]

\* an invocation of fetchGrabFoodVouchers(hardRefresh) at its first await
NewRunA(hardRefresh) ==
  [hard |-> hardRefresh, n |-> 1, resp |-> Wait, found |-> <<>>]

RemoveAt(seq, i) == SubSeq(seq, 1, i - 1) \o SubSeq(seq, i + 1, Len(seq))

\* an invocation that leaves the hidden list alone whatever hardRefresh is
BeginFetchAKeepingHidden(hardRefresh) ==
  /\ Len(runsA) < MaxRunsA
  /\ isLoading' = TRUE
  /\ error' = "null"
  /\ hiddenVouchers' = hiddenVouchers
  /\ localStorage' = localStorage
  /\ runsA' = Append(runsA, NewRunA(hardRefresh))

\* fetchGrabFoodVouchers(hardRefresh) from its first line to the first await
BeginFetchA(hardRefresh) ==
  /\ Len(runsA) < MaxRunsA
  /\ isLoading' = TRUE
  /\ error' = "null"
  /\ hiddenVouchers' = IF hardRefresh THEN {} ELSE hiddenVouchers
  /\ localStorage' = IF hardRefresh THEN RemoveItem(localStorage, HIDDEN_VOUCHERS_KEY)
                     ELSE localStorage
  /\ runsA' = Append(runsA, NewRunA(hardRefresh))

A_Respond ==
  /\ variant = "A"
  /\ \E i \in DOMAIN runsA :
       /\ runsA[i].resp = Wait
       /\ \E outcome \in FetchOutcomes :
            runsA' = [runsA EXCEPT ![i].resp = outcome]
  /\ UNCHANGED <<variant, now, localStorage, isLoading, error, discountArticles,
                 hiddenVouchers, hiddenCategories, dialog, voucherToHide, varsB, varsC,
                 isLongPressing, longPressTimer, timersA>>

\* the target loop of an invocation resumes with the answer to its fetch
ListSettledOfRunA(i) ==
  LET run == runsA[i] IN
  /\ variant = "A"
  /\ run.resp # Wait
  /\ IF FetchThrows(run.resp)
     THEN \* catch (err) and finally
          /\ error' = ErrorMessage
          /\ isLoading' = FALSE
          /\ runsA' = RemoveAt(runsA, i)
          /\ UNCHANGED discountArticles
     ELSE \E html \in (IF ResponseOk(run.resp) THEN PagesA(run.n) ELSE {<<>>}) :
          LET found == IF ResponseOk(run.resp)
                       THEN run.found \o ExtractA(run.n, html)
                       ELSE run.found   \* !response.ok: continue
          IN /\ error' = error
             /\ IF run.n < NumTargets
                THEN /\ runsA' = [runsA EXCEPT ![i] =
                           [hard |-> run.hard, n |-> run.n + 1,
                            resp |-> Wait, found |-> found]]
                     /\ UNCHANGED <<discountArticles, isLoading>>
                ELSE /\ discountArticles' = found
                     /\ isLoading' = FALSE
                     /\ runsA' = RemoveAt(runsA, i)
  /\ UNCHANGED <<variant, now, localStorage, hiddenVouchers, hiddenCategories,
                 dialog, voucherToHide, varsB, varsC, isLongPressing, longPressTimer,
                 timersA>>

A_ListSettled == \E i \in DOMAIN runsA : ListSettledOfRunA(i)

\* mousedown or touchstart on the Refresh button: startLongPress
A_StartLongPress ==
  /\ variant = "A"
  /\ dialog = "none"
  /\ ~isLoading
  /\ timersA < MaxTimersA
  /\ isLongPressing' = TRUE
  /\ longPressTimer' = TRUE
  /\ timersA' = timersA + 1
  /\ UNCHANGED <<variant, now, localStorage, isLoading, error, discountArticles,
                 hiddenVouchers, hiddenCategories, dialog, voucherToHide, varsB, varsC,
                 runsA>>

\* mouseup, mouseleave, touchend or touchcancel on the button: endLongPress
A_EndLongPress ==
  /\ variant = "A"
  /\ dialog = "none"
  /\ timersA' = IF longPressTimer THEN timersA - 1 ELSE timersA
  /\ longPressTimer' = FALSE
  /\ isLongPressing' = FALSE
  /\ UNCHANGED <<variant, now, localStorage, isLoading, error, discountArticles,
                 hiddenVouchers, hiddenCategories, dialog, voucherToHide, varsB, varsC,
                 runsA>>

\* a 4-second timeout expires: endLongPress(), then fetchGrabFoodVouchers(true).
\* held: the timeout is the one longPressTimer refers to.
A_LongPressTimerFired ==
  /\ variant = "A"
  /\ \E held \in BOOLEAN :
       /\ IF held THEN longPressTimer
          ELSE timersA > (IF longPressTimer THEN 1 ELSE 0)
       /\ timersA' = IF held \/ ~longPressTimer THEN timersA - 1 ELSE timersA - 2
  /\ longPressTimer' = FALSE
  /\ isLongPressing' = FALSE
  /\ BeginFetchA(TRUE)
  /\ UNCHANGED <<variant, now, discountArticles, hiddenCategories, dialog,
                 voucherToHide, varsB, varsC>>

\* click on the Refresh button (disabled while isLoading): handleRefreshClick
A_HandleRefreshClick ==
  /\ variant = "A"
  /\ dialog = "none"
  /\ ~isLoading
  /\ ~isLongPressing
  /\ BeginFetchA(FALSE)
  /\ UNCHANGED <<variant, now, discountArticles, hiddenCategories, dialog,
                 voucherToHide, varsB, varsC, isLongPressing, longPressTimer, timersA>>

\* the Try Again button of the error box
A_ClickTryAgain ==
  /\ variant = "A"
  /\ dialog = "none"
  /\ error # "null"
  /\ BeginFetchA(FALSE)
  /\ UNCHANGED <<variant, now, discountArticles, hiddenCategories, dialog,
                 voucherToHide, varsB, varsC, isLongPressing, longPressTimer, timersA>>

\* the Hide button of a scraped voucher card
HideOfferedA(voucher) == Actionable(voucher) /\ Truthy(voucher.description)

A_ConfirmHideVoucher ==
  /\ variant = "A"
  /\ dialog = "none"
  /\ error = "null"
  /\ \E v \in Range(ScrapedDisplayA(discountArticles, hiddenVouchers, hiddenCategories)) :
       /\ HideOfferedA(v)
       /\ voucherToHide' = OrElse(v.couponCode, <<>>)
  /\ dialog' = "hide"
  /\ UNCHANGED <<variant, now, localStorage, isLoading, error, discountArticles,
                 hiddenVouchers, hiddenCategories, varsB, varsA, varsC>>

A_HandleHideConfirm ==
  /\ variant = "A"
  /\ dialog = "hide"
  /\ LET h == hideVoucherA(localStorage, hiddenVouchers, voucherToHide) IN
       /\ localStorage' = h.ls
       /\ hiddenVouchers' = h.hv
       \* an exception leaves the handler before the last two statements
       /\ voucherToHide' = IF h.threw THEN voucherToHide ELSE Null
       /\ dialog' = IF h.threw THEN dialog ELSE "none"
  /\ UNCHANGED <<variant, now, isLoading, error, discountArticles,
                 hiddenCategories, varsB, varsA, varsC>>

A_HandleHideCancel ==
  /\ variant = "A"
  /\ dialog = "hide"
  /\ voucherToHide' = Null
  /\ dialog' = "none"
  /\ UNCHANGED <<variant, now, localStorage, isLoading, error, discountArticles,
                 hiddenVouchers, hiddenCategories, varsB, varsA, varsC>>

A_ToggleCategory ==
  /\ variant = "A"
  /\ dialog = "none"
  /\ \E category \in Categories :
       /\ validVouchersA(discountArticles, hiddenVouchers,
                         IF category = "grabfood"
                         THEN <<"g","r","a","b","f","o","o","d">>
                         ELSE <<"f","o","o","d","p","a","n","d","a">>) > 0
       /\ hiddenCategories' = toggleCategoryVisibility(hiddenCategories, category)
       /\ localStorage' = TrySetItem(localStorage, CATEGORY_VISIBILITY_KEY,
                                     toggleCategoryVisibility(hiddenCategories, category))
  /\ UNCHANGED <<variant, now, isLoading, error, discountArticles, hiddenVouchers,
                 dialog, voucherToHide, varsB, varsA, varsC>>

\* the page is loaded again: pending timeouts and invocations go with the old
\* page, and onMount runs fetchGrabFoodVouchers(), loadHiddenVouchers,
\* loadCategoryVisibility
A_Reload ==
  /\ variant = "A"
  /\ isLoading' = TRUE
  /\ error' = "null"
  /\ runsA' = <<NewRunA(FALSE)>>
  /\ discountArticles' = <<>>
  /\ hiddenVouchers' = loadHiddenVouchersA(localStorage)
  /\ hiddenCategories' = loadCategoryVisibility(localStorage, DefaultVisibility)
  /\ dialog' = "none"
  /\ voucherToHide' = Null
  /\ isLongPressing' = FALSE
  /\ longPressTimer' = FALSE
  /\ timersA' = 0
  /\ customVouchers' = loadCustomVouchers(localStorage, <<>>)
  /\ editingVoucher' = NoData
  /\ voucherToDelete' = NoData
  /\ UNCHANGED <<variant, now, localStorage, varsB, storageFails>>

\* ------------------------------------------------------------------------
\* Custom vouchers and the display list (both sites)
\* ------------------------------------------------------------------------
CustomVoucherDefault == <<"C","u","s","t","o","m"," ","v","o","u","c","h","e","r">>
UseThisCode == <<"U","s","e"," ","t","h","i","s"," ","c","o","d","e">>

\* the options of the merchant <select> of the form
MerchantOptions == { GrabFoodName, <<"F","o","o","d","p","a","n","d","a">> }

\* what the user types into the code field of the form
NewVoucherCodes == { <<" ">>, <<"M","Y"," ">> }

RECURSIVE NatToString(_)
NatToString(n) ==
  IF n < 10 THEN <<Digits[n + 1]>>
  ELSE NatToString(n \div 10) \o <<Digits[(n % 10) + 1]>>

\* the last five decimal digits of n, with leading zeros
FiveDigits(n) ==
  [i \in 1..5 |-> Digits[((n \div (10 ^ (5 - i))) % 10) + 1]]

\* Date.now().toString(): the decimal numeral of day * 86400000 + ms
DateNowString(t) ==
  LET high == t.day * (MsPerDay \div 100000) + (t.ms \div 100000)
      low == t.ms % 100000
  IN IF high = 0 THEN NatToString(low) ELSE NatToString(high) \o FiveDigits(low)

\* the object literal of addCustomVoucher; site A's vouchers have no cta
NewCustomVoucher(site, t, code, description, cta, merchant) ==
  IF site = "B"
  THEN [id |-> DateNowString(t), code |-> Trim(code),
        description |-> OrElse(Trim(description), CustomVoucherDefault),
        cta |-> OrElse(Trim(cta), UseThisCode), merchantName |-> merchant]
  ELSE [id |-> DateNowString(t), code |-> Trim(code),
        description |-> OrElse(Trim(description), CustomVoucherDefault),
        merchantName |-> merchant]

\* a list that takes the new voucher at its end
addCustomVoucherAtEnd(cv, newVoucher) == Append(cv, newVoucher)

\* customVouchers = [newVoucher, ...customVouchers]
addCustomVoucher(cv, newVoucher) == <<newVoucher>> \o cv

\* customVouchers.map(voucher => voucher.id === editingVoucher.id ? {...} : voucher)
updateCustomVoucher(cv, id, newVoucher) ==
  [i \in DOMAIN cv |->
     IF cv[i].id = id
     THEN [f \in DOMAIN cv[i] |-> IF f = "id" THEN cv[i].id ELSE newVoucher[f]]
     ELSE cv[i]]

\* customVouchers.filter(voucher => voucher.id !== id)
deleteCustomVoucher(cv, id) == SelectSeq(cv, LAMBDA v : v.id # id)

\* { ...item, ...extra }
Spread(item, extra) ==
  [f \in DOMAIN item \cup DOMAIN extra |->
     IF f \in DOMAIN extra THEN extra[f] ELSE item[f]]

\* the custom part of combinedVouchers with the fields the map adds
CustomItems(kept) ==
  [i \in DOMAIN kept |->
     Spread(kept[i], [isCustom |-> TRUE, voucherCode |-> kept[i].code])]

\* the scraped part of combinedVouchers with the fields the map adds
ScrapedItems(scraped) ==
  [i \in DOMAIN scraped |->
     Spread(scraped[i], [isCustom |-> FALSE, voucherCode |-> scraped[i].couponCode])]

\* a display list with the scraped vouchers in front
combinedVouchersScrapedFirst(cv, articles, hv, hc) ==
  ScrapedItems(ScrapedDisplayB(articles, hv, hc))
    \o CustomItems(SelectSeq(cv, LAMBDA v : ShownByCategoryB(v, hc)))

\* $: combinedVouchers (site B)
combinedVouchersB(cv, articles, hv, hc) ==
  CustomItems(SelectSeq(cv, LAMBDA v : ShownByCategoryB(v, hc)))
    \o ScrapedItems(ScrapedDisplayB(articles, hv, hc))

\* $: combinedVouchers (site A)
combinedVouchersA(cv, articles, hv, hc) ==
  CustomItems(SelectSeq(cv, LAMBDA v : ShownByCategoryA(v, hc)))
    \o ScrapedItems(ScrapedDisplayA(articles, hv, hc))

\* combinedVouchers of the page component loaded
combinedVouchers ==
  IF variant = "A"
  THEN combinedVouchersA(customVouchers, discountArticles, hiddenVouchers,
                         hiddenCategories)
  ELSE combinedVouchersB(customVouchers, discountArticles, hiddenVouchers,
                         hiddenCategories)

\* {#if !error} ... {#each combinedVouchers as voucher}: the list on the page
VisibleDisplay == IF error # "null" THEN <<>> ELSE combinedVouchers

\* the object the Edit and Delete buttons of a custom card pass on
CardPayload(item) ==
  IF variant = "B"
  THEN [id |-> item.id, code |-> OrElse(item.voucherCode, <<>>),
        description |-> OrElse(item.description, <<>>),
        cta |-> OrElse(item.cta, <<>>)]
  ELSE [id |-> item.id, code |-> OrElse(item.voucherCode, <<>>),
        description |-> OrElse(item.description, <<>>)]

\* the custom cards on the page that carry the Edit and Delete buttons
CustomCards ==
  { item \in Range(VisibleDisplay) :
      /\ item.isCustom
      /\ Truthy(item.voucherCode)
      /\ Truthy(item.description) \/ (variant = "B" /\ Truthy(item.cta)) }

\* the "Add" button: resetForm(); dialog.showModal()
OpenAddDialog ==
  /\ dialog = "none"
  /\ editingVoucher' = NoData
  /\ dialog' = "form"
  /\ UNCHANGED <<variant, now, localStorage, isLoading, error, discountArticles,
                 hiddenVouchers, hiddenCategories, voucherToHide, varsB, varsA,
                 storageFails, customVouchers, voucherToDelete>>

\* the Edit button of a custom card: editCustomVoucher
EditCustomVoucher ==
  /\ dialog = "none"
  /\ \E item \in CustomCards : editingVoucher' = CardPayload(item)
  /\ dialog' = "form"
  /\ UNCHANGED <<variant, now, localStorage, isLoading, error, discountArticles,
                 hiddenVouchers, hiddenCategories, voucherToHide, varsB, varsA,
                 storageFails, customVouchers, voucherToDelete>>

\* the form is submitted with no voucher being edited: addCustomVoucher
AddCustomVoucher ==
  /\ dialog = "form"
  /\ editingVoucher = NoData
  /\ Len(customVouchers) < MaxCustom
  /\ \E code \in NewVoucherCodes, merchant \in MerchantOptions :
       IF Trim(code) = <<>>
       THEN UNCHANGED <<customVouchers, localStorage, editingVoucher, dialog>>
       ELSE LET added == addCustomVoucher(customVouchers,
                           NewCustomVoucher(variant, now, code, <<>>, <<>>, merchant))
            IN /\ customVouchers' = added
               /\ localStorage' = saveCustomVouchers(localStorage, added)
               /\ editingVoucher' = NoData
               /\ dialog' = "none"
  /\ UNCHANGED <<variant, now, isLoading, error, discountArticles,
                 hiddenVouchers, hiddenCategories, voucherToHide, varsB, varsA,
                 storageFails, voucherToDelete>>

\* the form is submitted while a voucher is being edited: updateCustomVoucher
UpdateCustomVoucher ==
  /\ dialog = "form"
  /\ editingVoucher # NoData
  /\ \E code \in NewVoucherCodes, merchant \in MerchantOptions :
       IF Trim(code) = <<>>
       THEN UNCHANGED <<customVouchers, localStorage, editingVoucher, dialog>>
       ELSE LET updated == updateCustomVoucher(customVouchers, editingVoucher.id,
                             NewCustomVoucher(variant, now, code, <<>>, <<>>, merchant))
            IN /\ customVouchers' = updated
               /\ localStorage' = saveCustomVouchers(localStorage, updated)
               /\ editingVoucher' = NoData
               /\ dialog' = "none"
  /\ UNCHANGED <<variant, now, isLoading, error, discountArticles,
                 hiddenVouchers, hiddenCategories, voucherToHide, varsB, varsA,
                 storageFails, voucherToDelete>>

\* Cancel or the close button of the form: dialog.close() and nothing else
CloseFormDialog ==
  /\ dialog = "form"
  /\ dialog' = "none"
  /\ UNCHANGED <<variant, now, localStorage, isLoading, error, discountArticles,
                 hiddenVouchers, hiddenCategories, voucherToHide, varsB, varsA,
                 varsC>>

\* the Delete button of a custom card: confirmDeleteVoucher
ConfirmDeleteVoucher ==
  /\ dialog = "none"
  /\ \E item \in CustomCards : voucherToDelete' = CardPayload(item)
  /\ dialog' = "delete"
  /\ UNCHANGED <<variant, now, localStorage, isLoading, error, discountArticles,
                 hiddenVouchers, hiddenCategories, voucherToHide, varsB, varsA,
                 storageFails, customVouchers, editingVoucher>>

HandleDeleteConfirm ==
  /\ dialog = "delete"
  /\ IF voucherToDelete # NoData
     THEN LET left == deleteCustomVoucher(customVouchers, voucherToDelete.id) IN
          /\ customVouchers' = left
          /\ localStorage' = saveCustomVouchers(localStorage, left)
     ELSE UNCHANGED <<customVouchers, localStorage>>
  /\ voucherToDelete' = NoData
  /\ dialog' = "none"
  /\ UNCHANGED <<variant, now, isLoading, error, discountArticles,
                 hiddenVouchers, hiddenCategories, voucherToHide, varsB, varsA,
                 storageFails, editingVoucher>>

HandleDeleteCancel ==
  /\ dialog = "delete"
  /\ voucherToDelete' = NoData
  /\ dialog' = "none"
  /\ UNCHANGED <<variant, now, localStorage, isLoading, error, discountArticles,
                 hiddenVouchers, hiddenCategories, voucherToHide, varsB, varsA,
                 storageFails, customVouchers, editingVoucher>>

\* ------------------------------------------------------------------------
\* The clock
\* ------------------------------------------------------------------------
\* every advance of the clock is by at least the cache duration
TicksSoFar == now.day \div CACHE_DURATION.day

\* Time passes (only site B reads the clock).  The amounts are the two that the expiry test tells apart for
\* an entry written just before: exactly the cache duration (now = expire),
\* and one millisecond more (now > expire).
Tick ==
  /\ variant = "B"
  /\ TicksSoFar < MaxTicks
  /\ \E d \in {CACHE_DURATION, TimeAdd(CACHE_DURATION, OneMs)} : now' = TimeAdd(now, d)
  /\ UNCHANGED <<variant, localStorage, isLoading, error, discountArticles,
                 extractedArticles, hiddenVouchers, hiddenCategories, dialog,
                 voucherToHide, pending, mode, hiddenAtForce,
                 cacheHits, apiFetches, varsA, varsC>>

\* ------------------------------------------------------------------------
\* Specification
\* ------------------------------------------------------------------------
\* the component right after onMount, on a browser with nothing stored
Init ==
  /\ variant \in {"A", "B"}
  /\ now = [day |-> 0, ms |-> 0]
  /\ localStorage = EmptyStorage
  /\ isLoading = TRUE
  /\ error = "null"
  /\ discountArticles = <<>>
  /\ extractedArticles = <<>>
  /\ hiddenVouchers = {}
  /\ hiddenCategories = DefaultVisibility
  /\ dialog = "none"
  /\ voucherToHide = Null
  /\ pending = IF variant = "B" THEN [kind |-> "list", n |-> 1, resp |-> Wait]
               ELSE NoPending
  /\ mode = "regular"
  /\ hiddenAtForce = {}
  /\ cacheHits = 0
  /\ apiFetches = 0
  /\ runsA = IF variant = "A" THEN <<NewRunA(FALSE)>> ELSE <<>>
  /\ isLongPressing = FALSE
  /\ longPressTimer = FALSE
  /\ timersA = 0
  /\ storageFails \in BOOLEAN
  /\ customVouchers = <<>>
  /\ editingVoucher = NoData
  /\ voucherToDelete = NoData

Next ==
  \/ Tick
  \/ B_Respond
  \/ B_ListSettled
  \/ B_DetailSettled
  \/ B_DelayElapsed
  \/ B_ClickRefresh
  \/ B_ClickTryAgain
  \/ B_ConfirmForceRefresh
  \/ B_HandleForceRefreshConfirm
  \/ B_HandleForceRefreshCancel
  \/ B_ConfirmHideVoucher
  \/ B_HandleHideConfirm
  \/ B_HandleHideCancel
  \/ B_ToggleCategory
  \/ B_Reload
  \/ A_Respond
  \/ A_ListSettled
  \/ A_StartLongPress
  \/ A_EndLongPress
  \/ A_LongPressTimerFired
  \/ A_HandleRefreshClick
  \/ A_ClickTryAgain
  \/ A_ConfirmHideVoucher
  \/ A_HandleHideConfirm
  \/ A_HandleHideCancel
  \/ A_ToggleCategory
  \/ A_Reload

Spec == Init /\ [][Next]_vars

\* ------------------------------------------------------------------------
\* The page at rest: custom vouchers, category toggles and hiding, on a page
\* whose first refresh has ended
\* ------------------------------------------------------------------------
\* the body with a code among the answers of the detail endpoint for an id
AnsweredBody(articleId) ==
  CHOOSE body \in DetailBodies(articleId) :
    body.hasCta /\ Truthy(CleanCode(body.code))

\* the detail loop run to its end with every request answered: the store,
\* the published list and the two counters it leaves
RECURSIVE RefreshedB(_, _, _, _, _, _)
RefreshedB(ls, articles, i, t, hits, fetches) ==
  LET r == ResolveFrom(ls, articles, i, t, hits) IN
  IF ~r.miss
  THEN [ls |-> r.ls, articles |-> r.articles, hits |-> r.hits, fetches |-> fetches]
  ELSE LET id == r.articles[r.i].id
           data == DecodeDetail("ok", AnsweredBody(id))
       IN RefreshedB(IF data = NoData THEN r.ls
                     ELSE setCachedVoucherData(r.ls, id, data, t),
                     SpliceB(r.articles, r.i, data), r.i + 1, t, r.hits,
                     fetches + 1)

\* one millisecond passes
ClockTick ==
  /\ now.day = 0
  /\ now.ms < MaxClockMs
  /\ now' = TimeAdd(now, OneMs)
  /\ UNCHANGED <<variant, localStorage, isLoading, error, discountArticles,
                 hiddenVouchers, hiddenCategories, dialog, voucherToHide,
                 varsB, varsA, varsC>>

\* the component after the refresh of onMount has ended without an error,
\* on a browser that had nothing stored
InitDisplay ==
  /\ variant \in {"A", "B"}
  /\ storageFails \in BOOLEAN
  /\ now = [day |-> 0, ms |-> 0]
  /\ isLoading = FALSE
  /\ error = "null"
  /\ IF variant = "A"
     THEN \E html1 \in PagesA(1), html2 \in PagesA(2) :
            /\ discountArticles = ExtractA(1, html1) \o ExtractA(2, html2)
            /\ localStorage = EmptyStorage
            /\ cacheHits = 0
            /\ apiFetches = 0
     ELSE \E html1 \in PagesB(1), html2 \in PagesB(2) :
            LET done == RefreshedB(EmptyStorage, ExtractB(html1) \o ExtractB(html2),
                                   1, now, 0, 0)
            IN /\ discountArticles = done.articles
               /\ localStorage = done.ls
               /\ cacheHits = done.hits
               /\ apiFetches = done.fetches
  /\ extractedArticles = <<>>
  /\ hiddenVouchers = {}
  /\ hiddenCategories = DefaultVisibility
  /\ dialog = "none"
  /\ voucherToHide = Null
  /\ pending = NoPending
  /\ mode = "regular"
  /\ hiddenAtForce = {}
  /\ runsA = <<>>
  /\ isLongPressing = FALSE
  /\ longPressTimer = FALSE
  /\ timersA = 0
  /\ customVouchers = <<>>
  /\ editingVoucher = NoData
  /\ voucherToDelete = NoData

NextDisplay ==
  \/ ClockTick
  \/ OpenAddDialog
  \/ EditCustomVoucher
  \/ AddCustomVoucher
  \/ UpdateCustomVoucher
  \/ CloseFormDialog
  \/ ConfirmDeleteVoucher
  \/ HandleDeleteConfirm
  \/ HandleDeleteCancel
  \/ B_ConfirmHideVoucher
  \/ B_HandleHideConfirm
  \/ B_HandleHideCancel
  \/ B_ToggleCategory
  \/ A_ConfirmHideVoucher
  \/ A_HandleHideConfirm
  \/ A_HandleHideCancel
  \/ A_ToggleCategory

SpecDisplay == InitDisplay /\ [][NextDisplay]_vars

\* ------------------------------------------------------------------------
\* The component on a browser that holds a custom voucher list saved in an
\* earlier visit, and whose store accepts writes
\* ------------------------------------------------------------------------
StoredCustomVouchers(site) ==
  addCustomVoucher(<<>>,
    NewCustomVoucher(site, [day |-> 0, ms |-> 0], <<"M","Y">>, <<>>, <<>>,
                     <<"F","o","o","d","p","a","n","d","a">>))

InitStored ==
  /\ variant \in {"A", "B"}
  /\ storageFails = FALSE
  /\ now = [day |-> 0, ms |-> 0]
  /\ localStorage = saveCustomVouchers(EmptyStorage, StoredCustomVouchers(variant))
  /\ isLoading = TRUE
  /\ error = "null"
  /\ discountArticles = <<>>
  /\ extractedArticles = <<>>
  /\ hiddenVouchers = {}
  /\ hiddenCategories = DefaultVisibility
  /\ dialog = "none"
  /\ voucherToHide = Null
  /\ pending = IF variant = "B" THEN [kind |-> "list", n |-> 1, resp |-> Wait]
               ELSE NoPending
  /\ mode = "regular"
  /\ hiddenAtForce = {}
  /\ cacheHits = 0
  /\ apiFetches = 0
  /\ runsA = IF variant = "A" THEN <<NewRunA(FALSE)>> ELSE <<>>
  /\ isLongPressing = FALSE
  /\ longPressTimer = FALSE
  /\ timersA = 0
  /\ customVouchers = loadCustomVouchers(localStorage, <<>>)
  /\ editingVoucher = NoData
  /\ voucherToDelete = NoData

SpecStored == InitStored /\ [][Next]_vars

\* ------------------------------------------------------------------------
\* The component on a network that answers: every request issued is
\* eventually answered or rejected, and the event loop runs every
\* continuation and timer that is ready
\* ------------------------------------------------------------------------
Fairness ==
  /\ WF_vars(B_Respond) /\ WF_vars(B_ListSettled)
  /\ WF_vars(B_DetailSettled) /\ WF_vars(B_DelayElapsed)
  /\ WF_vars(A_Respond) /\ WF_vars(A_ListSettled)

SpecLive == Init /\ [][Next]_vars /\ Fairness

\* ------------------------------------------------------------------------
\* Properties
\* ------------------------------------------------------------------------
\* the article ids that have an entry under the cache namespace
CachedIds(ls) ==
  { SubSeq(key, Len(CACHE_KEY) + 2, Len(key)) :
      key \in {k \in DOMAIN ls : StartsWith(k, CACHE_KEY)} }

\* the article ids the list pages can carry
ArticleIds == {StripNonAlnum(RawId1), StripNonAlnum(RawId2)}

\* the clock values a stored entry is probed at: the present, its expiry
\* time, and one millisecond later
ClockProbes(entry) == {now, entry.expire, TimeAdd(entry.expire, OneMs)}

\* C1: for every stored cache entry and every clock value, each of the two
\* getters returns null if and only if the clock is past the entry's expire;
\* at expire itself the entry is still returned, and a read that returned
\* the entry leaves the store as it was, so the next read returns the same.
C1_GetAbsentIffExpired ==
  \A id \in CachedIds(localStorage) :
    LET entry == localStorage[CacheKeyOf(id)] IN
    \A t \in ClockProbes(entry) :
      LET late == \/ t.day > entry.expire.day
                  \/ (t.day = entry.expire.day /\ t.ms > entry.expire.ms)
          full == getCachedVoucherDataFull(localStorage, id, t)
          data == getCachedVoucherData(localStorage, id, t)
      IN /\ (full.ret = NoData) <=> late
         /\ (data.ret = NoData) <=> late
         /\ ~late => /\ full.ret = entry
                     /\ data.ret = PayloadOf(entry)
                     /\ full.ls = localStorage
                     /\ data.ls = localStorage
                     /\ getCachedVoucherDataFull(data.ls, id, t).ret = entry
                     /\ getCachedVoucherData(full.ls, id, t).ret = PayloadOf(entry)

\* the clock stands exactly at the expiry time of a stored entry, which both
\* getters still return
C1_EntryReadAtExpiry ==
  \E id \in CachedIds(localStorage) :
    /\ localStorage[CacheKeyOf(id)].expire = now
    /\ getCachedVoucherData(localStorage, id, now).ret # NoData
    /\ getCachedVoucherDataFull(localStorage, id, now).ret # NoData

\* the payloads fetchVoucherCode can hand to setCachedVoucherData for an id
PayloadsOf(id) ==
  {DecodeDetail("ok", body) : body \in DetailBodies(id)} \ {NoData}

\* C2: from every store state, setCachedVoucherData(id, payload) followed at
\* once by a get of id returns that payload, and the entry's hidden flag is
\* the flag the entry had before the put (false if there was no entry).
C2_PutGetRoundTrip ==
  ~storageFails =>
  \A id \in ArticleIds : \A payload \in PayloadsOf(id) :
    LET key == CacheKeyOf(id)
        before == IF HasItem(localStorage, key) THEN localStorage[key].hidden
                  ELSE FALSE
        after == setCachedVoucherData(localStorage, id, payload, now)
        full == getCachedVoucherDataFull(after, id, now)
    IN /\ full.ret # NoData
       /\ PayloadOf(full.ret) = payload
       /\ getCachedVoucherData(after, id, now).ret = payload
       /\ full.ret.hidden = before

\* C3: once the hidden flag of an id's cache entry is set, no step other
\* than the purge of forceRefresh leaves the entry without the flag or
\* removes the entry.
C3_HiddenFlagKept ==
  [][ \A id \in CachedIds(localStorage) :
        localStorage[CacheKeyOf(id)].hidden =>
          \/ B_HandleForceRefreshConfirm
          \/ /\ HasItem(localStorage', CacheKeyOf(id))
             /\ localStorage'[CacheKeyOf(id)].hidden ]_vars

\* forceRefresh has run up to its first list-page fetch: nothing is left
\* under the cache namespace, the visibility map is {} in memory and gone
\* from storage, and the fetch of the first target is in flight
ForcedPurgeDone ==
  /\ CachedIds(localStorage) = {}
  /\ hiddenCategories = DefaultVisibility
  /\ ~HasItem(localStorage, CATEGORY_VISIBILITY_KEY)
  /\ pending = [kind |-> "list", n |-> 1, resp |-> Wait]
  /\ isLoading

\* a step of the detail loop that resolves candidates: the last list page
\* has been read, or the delay after a detail request is over
ResolutionStepB ==
  \/ B_DelayElapsed
  \/ B_ListSettled /\ pending.n = NumTargets /\ ~FetchThrows(pending.resp)

\* the indices of the candidates such a step serves from the cache
ServedFromCache ==
  LET start == IF pending.kind = "delay" THEN pending.n + 1 ELSE 1
      stop == IF pending'.kind = "detail" THEN pending'.n
              ELSE Len(discountArticles') + 1
  IN start .. (stop - 1)

\* C4 as stated: forceRefresh leaves no cache entry and the visibility map
\* {} before its first list-page fetch, and in the cycle it starts no
\* candidate is served from the cache.
C4_ForcedRefetchesAll ==
  [][ /\ B_HandleForceRefreshConfirm => ForcedPurgeDone'
      /\ mode' = "forced" => cacheHits' = 0 ]_vars

\* C4 as amended: forceRefresh leaves no cache entry and the visibility map
\* {} before its first list-page fetch, and in the cycle it starts a
\* candidate is served from the cache only if its entry was written after
\* the purge: the user hid its id meanwhile, or the same id stands earlier in
\* the candidate list.
C4_ForcedRefetchesUnlessRewritten ==
  [][ /\ B_HandleForceRefreshConfirm => ForcedPurgeDone'
      /\ (mode = "forced" /\ ResolutionStepB) =>
           \A j \in ServedFromCache :
             LET id == discountArticles'[j].id IN
             \/ /\ HasItem(localStorage, CacheKeyOf(id))
                /\ localStorage[CacheKeyOf(id)].hidden
             \/ \E k \in 1 .. (j - 1) : discountArticles'[k].id = id ]_vars

\* a forced refresh that began with vouchers hidden has ended, having
\* fetched a detail from the network and served a candidate from the cache
C4_ForcedCycleEnded ==
  /\ mode = "forced"
  /\ pending.kind = "none"
  /\ error = "null"
  /\ ~isLoading
  /\ hiddenAtForce # {}
  /\ apiFetches > 0
  /\ cacheHits > 0

\* C5: when a forced refresh has completed, no scraped voucher is missing
\* from the display list because of a hide made before the forced refresh.
C5_HiddenReappearAfterForce ==
  (mode = "forced" /\ pending.kind = "none" /\ error = "null") =>
    \A i \in DOMAIN discountArticles :
      (discountArticles[i].id \in hiddenAtForce /\ ~CodeExcludedB(discountArticles[i]))
        => KeptByFilterB(discountArticles[i], hiddenVouchers)

\* the id has a cache entry that is not expired at time t
UnexpiredEntry(ls, id, t) ==
  /\ HasItem(ls, CacheKeyOf(id))
  /\ ~TimeGreater(t, ls[CacheKeyOf(id)].expire)

\* C6: a refresh issues a detail request only for a candidate whose id has
\* no unexpired cache entry at the time the candidate is resolved; every
\* candidate with one is passed over without a request and counted as a hit.
C6_CacheHitIssuesNoDetailFetch ==
  [][ /\ (pending.kind # "detail" /\ pending'.kind = "detail") =>
           /\ ~UnexpiredEntry(localStorage, discountArticles'[pending'.n].id, now)
           /\ apiFetches' = (IF pending.kind = "delay" THEN apiFetches ELSE 0) + 1
      /\ ResolutionStepB =>
           /\ cacheHits' = (IF pending.kind = "delay" THEN cacheHits ELSE 0)
                             + Cardinality(ServedFromCache)
           /\ pending'.kind # "detail" =>
                apiFetches' = (IF pending.kind = "delay" THEN apiFetches ELSE 0) ]_vars

\* a refresh has ended with candidates served from the cache and without any
\* detail request
C6_RefreshServedFromCache ==
  /\ variant = "B"
  /\ pending.kind = "none"
  /\ ~isLoading
  /\ error = "null"
  /\ cacheHits > 0
  /\ apiFetches = 0

\* C7: grabfood and foodpanda are never both hidden, in memory or in the
\* persisted map, in either page component.
C7_NeverBothHidden ==
  /\ ~(CategoryHidden(hiddenCategories, "grabfood")
       /\ CategoryHidden(hiddenCategories, "foodpanda"))
  /\ HasItem(localStorage, CATEGORY_VISIBILITY_KEY) =>
       ~(CategoryHidden(localStorage[CATEGORY_VISIBILITY_KEY], "grabfood")
         /\ CategoryHidden(localStorage[CATEGORY_VISIBILITY_KEY], "foodpanda"))

\* foodpanda is hidden and grabfood has been set visible by a toggle
C7_OneHiddenOtherSetVisible ==
  /\ hiddenCategories["foodpanda"] = "true"
  /\ hiddenCategories["grabfood"] = "false"
  /\ HasItem(localStorage, CATEGORY_VISIBILITY_KEY)
  /\ localStorage[CATEGORY_VISIBILITY_KEY] = hiddenCategories

\* the scraped part of the display list of the page component loaded
ScrapedDisplay ==
  IF variant = "A"
  THEN ScrapedDisplayA(discountArticles, hiddenVouchers, hiddenCategories)
  ELSE ScrapedDisplayB(discountArticles, hiddenVouchers, hiddenCategories)

\* C8: in both page components no voucher of the display list that is shown
\* with a code has an empty code or one of the excluded sentinel codes.
C8_NoSentinelActionable ==
  \A v \in Range(ScrapedDisplay) :
    Actionable(v) => (v.couponCode # <<>> /\ v.couponCode \notin EXCLUDED_CODES)

\* the ids of a candidate list
IdsOf(articles) == [i \in DOMAIN articles |-> articles[i].id]

\* C9: when a list-page fetch is answered with a non-2xx status, the loop
\* goes on: no error is set, the candidates found so far are kept and none
\* is added, the next target is fetched, and after the last target the
\* candidates are published and the refresh goes on to the details or ends
\* with isLoading false.
C9_NonOkListSkipped ==
  [][ /\ (B_ListSettled /\ pending.resp = "nonok") =>
           /\ error' = "null"
           /\ IF pending.n < NumTargets
              THEN /\ pending' = [kind |-> "list", n |-> pending.n + 1, resp |-> Wait]
                   /\ extractedArticles' = extractedArticles
                   /\ isLoading'
              ELSE /\ IdsOf(discountArticles') = IdsOf(extractedArticles)
                   /\ \/ pending'.kind = "detail" /\ isLoading'
                      \/ pending' = NoPending /\ ~isLoading'
      /\ \A i \in DOMAIN runsA :
           (runsA[i].resp = "nonok" /\ ListSettledOfRunA(i)) =>
             /\ error' = error
             /\ IF runsA[i].n < NumTargets
                THEN /\ runsA' = [runsA EXCEPT ![i].n = @ + 1, ![i].resp = Wait]
                     /\ isLoading' = isLoading
                ELSE /\ discountArticles' = runsA[i].found
                     /\ ~isLoading' ]_vars

\* the first target gave candidates and the fetch of the last target has
\* been answered with a non-2xx status
C9_NonOkAfterCandidates ==
  /\ variant = "B"
  /\ pending = [kind |-> "list", n |-> NumTargets, resp |-> "nonok"]
  /\ extractedArticles # <<>>

\* C10: when a list-page fetch is rejected, no error is shown, the target
\* adds no candidate, and the other target is still fetched and the
\* candidates are published.
C10_RejectedListRecovered ==
  [][ (B_ListSettled /\ pending.resp = "reject") =>
        /\ error' = "null"
        /\ IF pending.n < NumTargets
           THEN /\ pending' = [kind |-> "list", n |-> pending.n + 1, resp |-> Wait]
                /\ extractedArticles' = extractedArticles
           ELSE IdsOf(discountArticles') = IdsOf(extractedArticles) ]_vars

\* the transport and decode problems of a detail answer as the claim lists
\* them: non-2xx, rejected fetch, invalid JSON, no cta, no merchant
DetailProblemClaimed(outcome, body) ==
  \/ outcome # "ok"
  \/ body = BadJson
  \/ ~body.hasCta
  \/ body.merchant = Undefined

\* the problems on which fetchVoucherCode returns null
DetailProblem(outcome, body) ==
  \/ outcome # "ok"
  \/ body = BadJson
  \/ ~body.hasCta

\* fetchVoucherCode returned null and the loop went on: nothing cached, the
\* candidate as it was and without a code, no error, the delay started
DetailGaveNothing ==
  /\ localStorage' = localStorage
  /\ discountArticles' = discountArticles
  /\ ~Actionable(discountArticles'[pending.n])
  /\ error' = "null"
  /\ isLoading'
  /\ pending' = [kind |-> "delay", n |-> pending.n, resp |-> Wait]

\* C11 as stated: on a non-2xx answer, a rejected fetch, invalid JSON, or a
\* body without cta or without merchant, fetchVoucherCode returns null; the
\* candidate stays without a code, no error is set and the loop goes on.
C11_DetailProblemGivesNull ==
  [][ pending.kind = "detail" =>
        \A body \in DetailAnswers :
          (DetailSettledWith(body) /\ DetailProblemClaimed(pending.resp, body))
            => DetailGaveNothing ]_vars

\* C11 as amended: on a non-2xx answer, a rejected fetch, invalid JSON or a
\* body without cta, fetchVoucherCode returns null; the candidate stays
\* without a code, no error is set and the loop goes on.  A body with cta
\* and without merchant is no problem: its record is returned and cached with
\* the merchant name "Unknown merchant", and no error is set either.
C11_DetailFailureGivesNull ==
  [][ pending.kind = "detail" =>
        \A body \in DetailAnswers :
          /\ (DetailSettledWith(body) /\ DetailProblem(pending.resp, body))
               => DetailGaveNothing
          /\ (DetailSettledWith(body) /\ ~DetailProblem(pending.resp, body)
                /\ body.merchant = Undefined)
               => /\ error' = "null"
                  /\ pending' = [kind |-> "delay", n |-> pending.n, resp |-> Wait]
                  /\ ~storageFails =>
                       LET key == CacheKeyOf(extractedArticles[pending.n].id) IN
                       /\ HasItem(localStorage', key)
                       /\ localStorage'[key].merchantName = UnknownMerchant ]_vars

\* a detail request has failed: the loop is in its delay with the candidate
\* left without a code, nothing cached for it and no error
C11_CandidateLeftWithoutCode ==
  /\ variant = "B"
  /\ ~storageFails
  /\ pending.kind = "delay"
  /\ ~Actionable(discountArticles[pending.n])
  /\ ~HasItem(localStorage, CacheKeyOf(discountArticles[pending.n].id))
  /\ error = "null"
  /\ isLoading

\* what confirming the open hide dialog does to the store and the hidden set
HideAtHand ==
  IF variant = "B"
  THEN hideVoucherB(localStorage, hiddenVouchers, voucherToHide, now)
  ELSE hideVoucherA(localStorage, hiddenVouchers, voucherToHide)

\* C12: when the store refuses writes, hiding a voucher still takes effect in
\* memory and no exception escapes the handler: with the hide dialog open,
\* confirming it puts the voucher into the in-memory hidden set and the
\* handler runs to its end.
C12_HideSurvivesStorageFailure ==
  (storageFails /\ dialog = "hide") =>
     /\ voucherToHide \in HideAtHand.hv
     /\ ~HideAtHand.threw

\* an exception has reached the catch block of fetchGrabFoodVouchers
RefreshFailed == error = "null" /\ error' # "null"

\* the refresh that failed runs no further
RefreshHalted ==
  IF variant = "B" THEN pending' = NoPending ELSE Len(runsA') < Len(runsA)

\* C13: when an exception escapes the guarded paths during a refresh, the
\* refresh halts, one error message is set, isLoading becomes false, and the
\* results published before the failure are still in the list on the page.
C13_FailureKeepsResultsVisible ==
  [][ RefreshFailed =>
        /\ RefreshHalted
        /\ error' = ErrorMessage
        /\ isLoading' = FALSE
        /\ discountArticles' = discountArticles
        /\ VisibleDisplay' = VisibleDisplay ]_vars

\* merchant names an item can carry: none, the two of the form, the ones the
\* pages and the detail endpoint give, one that has "grab" without
\* "grabfood", one that has neither word, one that has both
MerchantNameProbes ==
  { Undefined, GrabFoodName, FoodPandaName,
    <<"F","o","o","d","p","a","n","d","a">>, <<"f","o","o","d","p","a","n","d","a">>,
    UnknownMerchant, <<"G","r","a","b">>,
    <<"G","r","a","b"," ","f","o","o","d","p","a","n","d","a">> }

NameHasGrabfood(item) ==
  MerchantIncludes(item.merchantName, <<"g","r","a","b","f","o","o","d">>)
NameHasGrab(item) == MerchantIncludes(item.merchantName, <<"g","r","a","b">>)
NameHasFoodpanda(item) ==
  MerchantIncludes(item.merchantName, <<"f","o","o","d","p","a","n","d","a">>)

\* the items the category filter of the page is asked about: the stored
\* custom vouchers, the published vouchers, and one item per probe name
FilterInputs ==
  Range(customVouchers) \cup Range(discountArticles)
    \cup { [merchantName |-> name] : name \in MerchantNameProbes }

\* the category filter of the page component loaded
ShownByCategory(item) ==
  IF variant = "A" THEN ShownByCategoryA(item, hiddenCategories)
  ELSE ShownByCategoryB(item, hiddenCategories)

\* when a category toggle drops an item, as the code decides it: the first
\* word found in the name decides alone; site A looks for "grabfood" where
\* site B looks for "grab"
DroppedByCategory(item) ==
  LET grab == IF variant = "A" THEN NameHasGrabfood(item) ELSE NameHasGrab(item) IN
  \/ grab /\ CategoryHidden(hiddenCategories, "grabfood")
  \/ ~grab /\ NameHasFoodpanda(item) /\ CategoryHidden(hiddenCategories, "foodpanda")

\* the id under which the page hides a scraped voucher
HiddenItem(article) ==
  (IF variant = "A" THEN OrElse(article.couponCode, <<>>)
   ELSE OrElse(article.id, <<>>)) \in hiddenVouchers

\* a display item without the two fields the display adds
Underlying(item) ==
  [f \in DOMAIN item \ {"isCustom", "voucherCode"} |-> item[f]]

UnderlyingOf(items) == [i \in DOMAIN items |-> Underlying(items[i])]

\* C14: the display list is the custom vouchers that no category toggle
\* drops, in stored order, followed by the scraped vouchers that are neither
\* hidden nor dropped by a category toggle, in extraction order; no scraped
\* voucher stands before a custom one.
C14_CustomThenScraped ==
  LET shown == combinedVouchers IN
  /\ \A i, j \in DOMAIN shown : (i < j /\ shown[j].isCustom) => shown[i].isCustom
  /\ UnderlyingOf(SelectSeq(shown, LAMBDA item : item.isCustom))
       = SelectSeq(customVouchers, LAMBDA v : ~DroppedByCategory(v))
  /\ UnderlyingOf(SelectSeq(shown, LAMBDA item : ~item.isCustom))
       = SelectSeq(discountArticles,
                   LAMBDA a : ~HiddenItem(a) /\ ~DroppedByCategory(a))

\* the page shows two custom vouchers of different codes or merchants and a
\* scraped one, while a custom voucher and a scraped voucher are filtered out
C14_MixedListShown ==
  LET shown == combinedVouchers IN
  /\ Len(shown) >= 3
  /\ shown[1].isCustom /\ shown[2].isCustom
  /\ shown[1].id # shown[2].id
  /\ ~shown[Len(shown)].isCustom
  /\ Len(discountArticles) > Len(SelectSeq(shown, LAMBDA item : ~item.isCustom))

\* when a category toggle drops an item, as the claim has it
DroppedAsClaimed(item) ==
  \/ /\ NameHasGrabfood(item) \/ NameHasGrab(item)
     /\ CategoryHidden(hiddenCategories, "grabfood")
  \/ /\ NameHasFoodpanda(item)
     /\ CategoryHidden(hiddenCategories, "foodpanda")

WrittenIds ==
  { id \in CachedIds(localStorage') :
      \/ ~HasItem(localStorage, CacheKeyOf(id))
      \/ localStorage'[CacheKeyOf(id)] # localStorage[CacheKeyOf(id)] }

\* C17: every write of a cache entry at time t (a put of fetched data, or the
\* write of hideVoucher) stores expire = t + CACHE_DURATION, whatever expire
\* the entry had before, and CACHE_DURATION is 5,184,000,000 ms = 5,184,000
\* seconds.
C17_WriteSetsExpire ==
  [][ /\ \A id \in WrittenIds :
           localStorage'[CacheKeyOf(id)].expire = TimeAdd(now, CACHE_DURATION)
      /\ CACHE_DURATION.ms = 0
      /\ MsPerDay % 1000 = 0
      /\ CACHE_DURATION.day * (MsPerDay \div 1000) = 5184000 ]_vars

\* an entry with a fetched payload has been written again after the clock
\* had moved: it is hidden and its expiry counts from the later time
C17_RewrittenLater ==
  \E id \in CachedIds(localStorage) :
    LET entry == localStorage[CacheKeyOf(id)] IN
    /\ now.day > 0
    /\ entry.code # Null
    /\ entry.hidden
    /\ entry.expire = TimeAdd(now, CACHE_DURATION)

\* C18: when the entry stored for an id is hidden and past its expiry time
\* but still in the store, a put for that id yields an entry that is hidden.
C18_ExpiredHiddenStaysHidden ==
  \A id \in CachedIds(localStorage) : \A payload \in PayloadsOf(id) :
    LET key == CacheKeyOf(id)
        after == setCachedVoucherData(localStorage, id, payload, now)
    IN (~storageFails /\ localStorage[key].hidden
          /\ CacheExpired(now, localStorage[key]))
         => HasItem(after, key) /\ after[key].hidden

\* the minimal entry hideVoucher creates: no payload, code null
MinimalEntry(entry) ==
  /\ entry.code = Null
  /\ entry.cta = Undefined /\ entry.headline = Undefined
  /\ entry.description = Undefined /\ entry.merchantName = Undefined

\* C19: hideVoucher(id) leaves the payload fields of an unexpired entry of id
\* as they are; where id has no such entry it creates a minimal entry with
\* code null; the entry it writes has hidden = true; the entries of all other
\* ids stay as they are and no entry of another id appears.  (When the store
\* refuses the write nothing is written; the payload and the other entries
\* are untouched then too.)
C19_HideKeepsPayload ==
  [][ B_HandleHideConfirm =>
        LET id == voucherToHide
            key == CacheKeyOf(id)
        IN /\ \A other \in CachedIds(localStorage) \ {id} :
                /\ HasItem(localStorage', CacheKeyOf(other))
                /\ localStorage'[CacheKeyOf(other)] = localStorage[CacheKeyOf(other)]
           /\ CachedIds(localStorage') \subseteq CachedIds(localStorage) \cup {id}
           /\ UnexpiredEntry(localStorage, id, now) =>
                /\ HasItem(localStorage', key)
                /\ PayloadOf(localStorage'[key]) = PayloadOf(localStorage[key])
           /\ ~storageFails =>
                /\ HasItem(localStorage', key)
                /\ localStorage'[key].hidden
                /\ id \in hiddenVouchers'
                /\ ~UnexpiredEntry(localStorage, id, now) =>
                     MinimalEntry(localStorage'[key]) ]_vars

\* a voucher with a cached payload has been hidden while another id is
\* cached: its entry is hidden and still carries the code
C19_HiddenWithPayload ==
  /\ variant = "B"
  /\ \E id \in hiddenVouchers :
       /\ HasItem(localStorage, CacheKeyOf(id))
       /\ localStorage[CacheKeyOf(id)].hidden
       /\ localStorage[CacheKeyOf(id)].code # Null
       /\ CachedIds(localStorage) \ {id} # {}

\* a step has removed a cache entry that was not past its expiry time
LiveEntryRemoved ==
  \E id \in CachedIds(localStorage) :
    /\ UnexpiredEntry(localStorage, id, now)
    /\ ~HasItem(localStorage', CacheKeyOf(id))

\* C20: clearVoucherCache removes every key that starts with the cache prefix
\* and leaves every other key with its value, the custom voucher list and the
\* category-visibility map among them; it runs in forceRefresh only: the
\* confirmed forced refresh leaves no cache key and the custom list as it
\* was, and no other step removes an entry that has not expired.
C20_PurgeTakesCacheKeysOnly ==
  [][ /\ LET after == clearVoucherCache(localStorage) IN
           /\ DOMAIN after \subseteq DOMAIN localStorage
           /\ \A key \in DOMAIN localStorage :
                IF StartsWith(key, CACHE_KEY) THEN ~HasItem(after, key)
                ELSE HasItem(after, key) /\ after[key] = localStorage[key]
      /\ B_HandleForceRefreshConfirm =>
           /\ CachedIds(localStorage') = {}
           /\ \A key \in DOMAIN localStorage :
                (~StartsWith(key, CACHE_KEY) /\ key # CATEGORY_VISIBILITY_KEY)
                  => HasItem(localStorage', key) /\ localStorage'[key] = localStorage[key]
      /\ LiveEntryRemoved => B_HandleForceRefreshConfirm ]_vars

\* a forced refresh has just purged a store that held hidden entries and a
\* visibility map: the saved custom list is still there
C20_PurgedStoreKeepsCustomList ==
  /\ ForcedPurgeDone
  /\ hiddenAtForce # {}
  /\ HasItem(localStorage, CUSTOM_VOUCHERS_KEY)
  /\ localStorage[CUSTOM_VOUCHERS_KEY] = customVouchers
  /\ customVouchers # <<>>

\* C21: in the detail loop the delay is awaited after a candidate resolved by
\* a detail request and never after one served from the cache: a delay starts
\* only when a detail request has been answered, an answered detail request
\* is always followed by the delay, and a step that resolves candidates
\* passes every candidate with an unexpired entry without delay and stops
\* only at a candidate without one, for which it issues the request.
C21_DelayAfterMissOnly ==
  [][ /\ (pending'.kind = "delay" /\ pending.kind # "delay") =>
           /\ pending.kind = "detail"
           /\ pending'.n = pending.n
           /\ cacheHits' = cacheHits /\ apiFetches' = apiFetches
      /\ (pending.kind = "detail" /\ pending'.kind # "detail") =>
           pending'.kind = "delay" \/ B_Reload
      /\ (pending'.kind = "detail" /\ pending.kind # "detail") => ResolutionStepB
      /\ ResolutionStepB =>
           /\ pending'.kind # "delay"
           /\ \A i \in ServedFromCache :
                UnexpiredEntry(localStorage, discountArticles'[i].id, now)
           /\ pending'.kind = "detail" =>
                ~UnexpiredEntry(localStorage, discountArticles'[pending'.n].id, now) ]_vars

\* the loop is in the delay after a detail request, having served an earlier
\* candidate from the cache without one
C21_DelayAfterHitsAndMiss ==
  /\ variant = "B"
  /\ pending.kind = "delay"
  /\ pending.n > 1
  /\ cacheHits > 0
  /\ apiFetches > 0


\* A step in which a trigger of the running page (Refresh click, Try Again,
\* forced-refresh confirmation, long-press timer expiry) starts an invocation
\* of fetchGrabFoodVouchers.  The mount of a reloaded page is a new component.
RefreshTriggered ==
  \/ /\ variant = "A"
     /\ Len(runsA') > Len(runsA)
     /\ ~A_Reload
  \/ /\ variant = "B"
     /\ B_ClickRefresh \/ B_ClickTryAgain \/ B_HandleForceRefreshConfirm

\* C22: at most one refresh is in progress at any time: no trigger starts a
\* new invocation of fetchGrabFoodVouchers while isLoading is true, and so
\* no two invocations are ever in progress together, in either variant.
C22_OneRefreshAtATime ==
  [][ /\ RefreshTriggered => ~isLoading
      /\ Len(runsA') <= 1 ]_vars


\* a step that issues a list-page request or a detail request
FetchIssued ==
  IF variant = "B"
  THEN /\ pending'.kind \in {"list", "detail"}
       /\ pending'.resp = Wait
       /\ pending' # pending
  ELSE \/ Len(runsA') > Len(runsA)
       \/ A_Reload
       \/ /\ Len(runsA') = Len(runsA)
          /\ \E i \in DOMAIN runsA : runsA'[i].n > runsA[i].n

\* a step taken by the user that asks for a refresh: Refresh, Try Again, the
\* forced refresh, a long press that ran its four seconds, a page reload
UserInitiated ==
  \/ B_ClickRefresh \/ B_ClickTryAgain \/ B_HandleForceRefreshConfirm \/ B_Reload
  \/ A_HandleRefreshClick \/ A_ClickTryAgain \/ A_LongPressTimerFired \/ A_Reload

\* C23: retry is never automatic: once a refresh has ended in Failed or in
\* Idle (isLoading is false), a list-page or detail request is issued only by
\* a step the user initiated.
C23_NoFetchWithoutUser ==
  [][ (~isLoading /\ FetchIssued) => UserInitiated ]_vars

\* C24: custom vouchers are an ordered list, newest first: submitting the add
\* form with a non-blank code puts the new voucher at index 0, keeps the
\* vouchers already there in their order and writes the list to the store
\* (a store that refuses the write keeps what it had); a blank code changes
\* neither the list in memory nor the stored one, so the voucher put in front
\* always carries a trimmed, non-empty code.
C24_AddPutsNewestFirst ==
  [][ AddCustomVoucher =>
        \/ /\ customVouchers' = customVouchers
           /\ localStorage' = localStorage
        \/ /\ Len(customVouchers') = Len(customVouchers) + 1
           /\ Tail(customVouchers') = customVouchers
           /\ Head(customVouchers').code \in { Trim(c) : c \in NewVoucherCodes } \ {<<>>}
           /\ Head(customVouchers').id = DateNowString(now)
           /\ IF storageFails
              THEN localStorage' = localStorage
              ELSE loadCustomVouchers(localStorage', <<>>) = customVouchers' ]_vars

\* two vouchers added one after the other, the list saved
C24_TwoAddedAndSaved ==
  /\ Len(customVouchers) = 2
  /\ customVouchers[1].id # customVouchers[2].id
  /\ ~storageFails
  /\ loadCustomVouchers(localStorage, <<>>) = customVouchers

\* C25: site A, as its hide dialog says ("Hidden vouchers will reappear when
\* you refresh the page"): a regular refresh or a reload of the page leaves
\* no voucher hidden, so a voucher hidden before it is back in the display
\* list.
C25_RefreshBringsHiddenBack ==
  [][ (variant = "A" /\ (A_HandleRefreshClick \/ A_ClickTryAgain \/ A_Reload)) =>
        /\ hiddenVouchers' = {}
        /\ ScrapedDisplayA(discountArticles', hiddenVouchers', hiddenCategories')
             = ScrapedDisplayA(discountArticles', {}, hiddenCategories') ]_vars

\* C26: site A: a forced (hard) refresh resets category visibility to the
\* default {}, in memory and in the store, before its list-page requests are
\* issued: the step that starts the hard invocation leaves hiddenCategories at
\* its default and no saved visibility in the store.
C26_HardRefreshResetsVisibility ==
  [][ (variant = "A" /\ A_LongPressTimerFired) =>
        /\ hiddenCategories' = DefaultVisibility
        /\ ~HasItem(localStorage', CATEGORY_VISIBILITY_KEY) ]_vars

\* the article ids whose cache entry, looked up under the key the cache
\* functions build for the id, is stored with hidden = true
HiddenInStore(ls) ==
  { id \in ArticleIds : HasItem(ls, CacheKeyOf(id)) /\ ls[CacheKeyOf(id)].hidden }

\* C27: the hidden set survives a reload (site B): when hideVoucher(id) has
\* run without an exception, loadHiddenVouchers run on the store it left
\* yields a set that contains id; and the set a reloaded page reconstructs is
\* exactly the set of ids whose stored cache entry has hidden = true.
C27_HiddenSetSurvivesReload ==
  [][ /\ (B_HandleHideConfirm /\ dialog' = "none") =>
           /\ voucherToHide \in loadHiddenVouchersB(localStorage')
           /\ loadHiddenVouchersB(localStorage') = HiddenInStore(localStorage')
      /\ B_Reload =>
           /\ hiddenVouchers' = HiddenInStore(localStorage')
           /\ \A id \in hiddenVouchers' : localStorage'[CacheKeyOf(id)].hidden ]_vars

\* a reloaded page that found a hidden voucher and a cached one not hidden
C27_ReloadedWithHidden ==
  /\ variant = "B"
  /\ pending = [kind |-> "list", n |-> 1, resp |-> Wait]
  /\ discountArticles = <<>>
  /\ hiddenVouchers # {}
  /\ CachedIds(localStorage) \ hiddenVouchers # {}

\* the target loop of site B ends, without an exception, with no candidate
LoopEndsEmptyB ==
  /\ B_ListSettled
  /\ pending.n = NumTargets
  /\ ~FetchThrows(pending.resp)
  /\ \/ discountArticles' = <<>>
     \/ extractedArticles = <<>> /\ ~ResponseOk(pending.resp)

\* the target loop of an invocation of site A ends the same way
LoopEndsEmptyA ==
  \E i \in DOMAIN runsA :
    /\ ListSettledOfRunA(i)
    /\ runsA[i].n = NumTargets
    /\ ~FetchThrows(runsA[i].resp)
    /\ \/ discountArticles' = <<>>
       \/ runsA[i].found = <<>> /\ ~ResponseOk(runsA[i].resp)

\* C28: zero candidates is legitimate: a refresh whose list pages, as far as
\* they were fetched, yield no matching element ends in Idle: the scraped
\* list is empty, isLoading is false, no error is shown, and no detail
\* request was issued.
C28_ZeroCandidatesEndsIdle ==
  [][ (LoopEndsEmptyB \/ LoopEndsEmptyA) =>
        /\ discountArticles' = <<>>
        /\ isLoading' = FALSE
        /\ error' = "null"
        /\ variant = "B" => (pending' = NoPending /\ apiFetches' = 0 /\ cacheHits' = 0)
        /\ variant = "A" => Len(runsA') < Len(runsA) ]_vars

\* C29: lazy expiry: a get of a stored entry at a clock value past its expire
\* removes that entry's key and no other; a get at a clock value up to its
\* expire removes nothing; and a step of the page that removes a cache entry
\* is either the forced refresh running clearVoucherCache or removes an entry
\* whose expire the clock has passed.
C29_RemovedOnlyWhenExpiredOrPurged ==
  [][ /\ \A id \in CachedIds(localStorage) :
           LET key == CacheKeyOf(id)
               entry == localStorage[key]
           IN \A t \in ClockProbes(entry) :
                LET full == getCachedVoucherDataFull(localStorage, id, t)
                    data == getCachedVoucherData(localStorage, id, t)
                IN IF TimeGreater(t, entry.expire)
                   THEN /\ full.ls = RemoveItem(localStorage, key)
                        /\ data.ls = RemoveItem(localStorage, key)
                        /\ ~HasItem(data.ls, key)
                        /\ DOMAIN data.ls = DOMAIN localStorage \ {key}
                   ELSE /\ full.ls = localStorage
                        /\ data.ls = localStorage
      /\ \A id \in CachedIds(localStorage) :
           ~HasItem(localStorage', CacheKeyOf(id)) =>
              \/ B_HandleForceRefreshConfirm
              \/ TimeGreater(now, localStorage[CacheKeyOf(id)].expire) ]_vars

\* a regular refresh, run after the clock passed the expiry of the stored
\* entries, is fetching the details of a candidate that has no entry any
\* more while an expired entry not read yet is still in the store
C29_ExpiredEntryDropped ==
  /\ variant = "B"
  /\ mode = "regular"
  /\ pending.kind = "detail"
  /\ ~HasItem(localStorage, CacheKeyOf(discountArticles[pending.n].id))
  /\ \E id \in CachedIds(localStorage) :
       TimeGreater(now, localStorage[CacheKeyOf(id)].expire)

\* an invocation of fetchGrabFoodVouchers is between its first line and its
\* finally block
RefreshInProgress == IF variant = "B" THEN pending.kind # "none" ELSE runsA # <<>>

\* the phases of a refresh of site B follow one another in order: list pages
\* 1..NumTargets, then the candidates one by one with rising index, each
\* detail request followed by its delay; nothing leads back to a list page
\* but a new refresh
PhasesInOrder ==
  /\ (RefreshTriggered \/ B_Reload \/ A_Reload) => isLoading'
  /\ (pending.kind = "none" /\ pending'.kind # "none") =>
        pending' = [kind |-> "list", n |-> 1, resp |-> Wait]
  /\ (pending.kind = "list" /\ pending'.kind = "list" /\ ~B_Reload) =>
        pending'.n \in {pending.n, pending.n + 1}
  /\ (pending.kind \in {"detail", "delay"} /\ pending'.kind = "list") => B_Reload
  /\ (pending.kind # "detail" /\ pending'.kind = "detail") =>
        \/ pending.kind = "list" /\ pending.n = NumTargets
        \/ pending.kind = "delay" /\ pending'.n > pending.n
  /\ (pending.kind = "detail" /\ pending'.kind # "detail") =>
        \/ pending'.kind = "delay" /\ pending'.n = pending.n
        \/ B_Reload
  /\ \A i \in DOMAIN runsA :
        (ListSettledOfRunA(i) /\ Len(runsA') = Len(runsA)) => runsA'[i].n = runsA[i].n + 1

\* C30: the refresh state machine terminates: a refresh sets isLoading when
\* it starts, goes through the list pages, the extraction and the candidates'
\* details in that order, isLoading is true in every state in between, and,
\* on a network that answers every request, the refresh reaches Idle or
\* Failed with isLoading false (unless the page is reloaded again and again).
C30_RefreshTerminates ==
  /\ [](RefreshInProgress => isLoading)
  /\ [][PhasesInOrder]_vars
  /\ \/ []<><<B_Reload \/ A_Reload>>_vars
     \/ RefreshInProgress ~> (~RefreshInProgress /\ ~isLoading)

\* a step of a regular (non-forced) refresh: its start by Refresh or Try
\* Again, or a continuation of an invocation that was started that way
RegularRefreshStep ==
  \/ B_ClickRefresh \/ B_ClickTryAgain
  \/ /\ variant = "B" /\ mode = "regular"
     /\ B_ListSettled \/ B_DetailSettled \/ B_DelayElapsed
  \/ A_HandleRefreshClick \/ A_ClickTryAgain
  \/ \E i \in DOMAIN runsA : ~runsA[i].hard /\ ListSettledOfRunA(i)

\* what the store holds under a key, absent keys included
Stored(ls, key) == IF HasItem(ls, key) THEN <<ls[key]>> ELSE <<>>

\* C31: a regular refresh leaves the user's overlays as they are: no step of
\* it changes the category-visibility map, the custom voucher list or the
\* hidden set, in memory or in the store, nor the hidden flag of a cache
\* entry that is unexpired when the step reads it.
C31_RegularRefreshKeepsOverlays ==
  [][ RegularRefreshStep =>
        /\ hiddenCategories' = hiddenCategories
        /\ customVouchers' = customVouchers
        /\ hiddenVouchers' = hiddenVouchers
        /\ \A key \in {CATEGORY_VISIBILITY_KEY, CUSTOM_VOUCHERS_KEY, HIDDEN_VOUCHERS_KEY} :
             Stored(localStorage', key) = Stored(localStorage, key)
        /\ variant = "B" =>
             \A id \in CachedIds(localStorage) :
               UnexpiredEntry(localStorage, id, now) =>
                 /\ HasItem(localStorage', CacheKeyOf(id))
                 /\ localStorage'[CacheKeyOf(id)].hidden
                      = localStorage[CacheKeyOf(id)].hidden ]_vars

\* a second regular refresh of site B has ended on a page with a hidden
\* voucher, a hidden category and a saved custom voucher
C31_RefreshedWithOverlays ==
  /\ variant = "B" /\ mode = "regular" /\ pending = NoPending /\ ~isLoading
  /\ cacheHits > 0
  /\ hiddenVouchers # {}
  /\ hiddenCategories # DefaultVisibility
  /\ customVouchers # <<>>
  /\ \E id \in hiddenVouchers : UnexpiredEntry(localStorage, id, now)

\* a body whose code is made of characters the cleaning removes
DashCodeBody ==
  [code |-> <<"-">>, hasCta |-> TRUE,
   ctaHeading |-> <<"G","o">>, ctaValue |-> <<>>,
   headline |-> <<"H">>, title |-> Undefined,
   description |-> Undefined, content |-> Undefined,
   merchant |-> GrabFoodName]

\* the bodies the splice of a fetched record is probed with
DetailProbes(articleId) == DetailBodies(articleId) \cup {DashCodeBody}

\* the candidate carries the five fields of the detail record
Carries(article, data) ==
  /\ article.couponCode = data.code
  /\ article.cta = data.cta
  /\ article.headline = data.headline
  /\ article.description = data.description
  /\ article.merchantName = data.merchantName

\* C32 as stated: a candidate whose freshly fetched detail record has a
\* non-null code carries that record's code, cta, headline, description and
\* merchantName once the record is spliced.
C32_NonNullCodeSpliced ==
  (variant = "B" /\ pending.kind = "detail") =>
    \A body \in DetailProbes(extractedArticles[pending.n].id) :
      LET data == DecodeDetail("ok", body) IN
      (data # NoData /\ data.code # Null) =>
         Carries(SpliceB(discountArticles, pending.n, data)[pending.n], data)

\* C32 as amended: the scraped list has the length and the order of the
\* extracted candidates from its publication to the end of the refresh; a
\* candidate whose cached or freshly fetched record has a non-empty code
\* carries the five fields of that record, a record with a null or empty code
\* leaves the candidate as it was; and the record of a successful detail
\* request is in the cache, if the store takes the write, in the step that
\* publishes it.
C32_NonEmptyCodeSpliced ==
  [][ /\ (B_ListSettled /\ pending.n = NumTargets /\ ~FetchThrows(pending.resp)) =>
           \E html \in (IF ResponseOk(pending.resp) THEN PagesB(pending.n) ELSE {<<>>}) :
             IdsOf(discountArticles') = IdsOf(extractedArticles \o ExtractB(html))
      /\ (B_DetailSettled \/ B_DelayElapsed) =>
           IdsOf(discountArticles') = IdsOf(discountArticles)
      /\ ResolutionStepB =>
           /\ \A i \in ServedFromCache :
                LET entry == localStorage[CacheKeyOf(discountArticles'[i].id)] IN
                IF Truthy(entry.code)
                THEN Carries(discountArticles'[i], entry)
                ELSE discountArticles'[i] = NewArticleB(discountArticles'[i].id)
           /\ B_DelayElapsed =>
                \A i \in DOMAIN discountArticles \ ServedFromCache :
                  discountArticles'[i] = discountArticles[i]
      /\ pending.kind = "detail" =>
           LET n == pending.n
               id == extractedArticles[n].id
           IN /\ \A body \in DetailAnswers :
                   DetailSettledWith(body) =>
                     LET data == DecodeDetail(pending.resp, body) IN
                     /\ \A j \in DOMAIN discountArticles \ {n} :
                          discountArticles'[j] = discountArticles[j]
                     /\ data # NoData =>
                          /\ ~storageFails =>
                               /\ HasItem(localStorage', CacheKeyOf(id))
                               /\ PayloadOf(localStorage'[CacheKeyOf(id)]) = data
                          /\ IF Truthy(data.code)
                             THEN Carries(discountArticles'[n], data)
                             ELSE discountArticles' = discountArticles
              /\ \A body \in DetailProbes(id) :
                   LET data == DecodeDetail("ok", body) IN
                   data # NoData =>
                     IF Truthy(data.code)
                     THEN Carries(SpliceB(discountArticles, n, data)[n], data)
                     ELSE SpliceB(discountArticles, n, data) = discountArticles ]_vars

\* a refresh has ended without failure with two candidates, one served from
\* the cache and one fetched, both carrying a code
C32_ResolvedFromCacheAndFetch ==
  /\ variant = "B" /\ pending = NoPending /\ ~isLoading /\ error = "null"
  /\ Len(discountArticles) = 2
  /\ cacheHits > 0 /\ apiFetches > 0
  /\ \A i \in DOMAIN discountArticles : Actionable(discountArticles[i])

\* C33: site A: when fetchGrabFoodVouchers(true) starts, the hidden list in
\* memory becomes empty and the "hidden-vouchers" key leaves the store in the
\* step that issues the first list-page fetch; fetchGrabFoodVouchers(false)
\* and every continuation of an invocation leave both as they are.
C33_HardRefreshClearsHiddenList ==
  [][ /\ A_LongPressTimerFired =>
           /\ hiddenVouchers' = {}
           /\ ~HasItem(localStorage', HIDDEN_VOUCHERS_KEY)
           /\ runsA'[Len(runsA')] = NewRunA(TRUE)
      /\ (A_HandleRefreshClick \/ A_ClickTryAgain) =>
           /\ hiddenVouchers' = hiddenVouchers
           /\ localStorage' = localStorage
           /\ runsA'[Len(runsA')] = NewRunA(FALSE)
      /\ A_ListSettled =>
           /\ hiddenVouchers' = hiddenVouchers
           /\ localStorage' = localStorage ]_vars

\* a hard refresh has just started on a page that showed vouchers: nothing is
\* hidden and the store has no hidden list
C33_HardRefreshStarted ==
  /\ variant = "A"
  /\ discountArticles # <<>>
  /\ \E i \in DOMAIN runsA : runsA[i] = NewRunA(TRUE)
  /\ hiddenVouchers = {}
  /\ ~HasItem(localStorage, HIDDEN_VOUCHERS_KEY)

\* C34: site B: in every reachable state the hidden set in memory is the set
\* of ids whose stored cache entry has hidden = true.
C34_HiddenSetMatchesStore ==
  variant = "B" => hiddenVouchers = HiddenInStore(localStorage)

\* C35: site B: a detail request that fails (fetchVoucherCode returns null)
\* writes nothing to the cache; one that succeeds is cached whatever its
\* code, null included, when the store takes the write; and the detail loop
\* issues a request for exactly the first candidate that has no unexpired
\* entry: a candidate with one is never fetched, a candidate without one, a
\* failed fetch behind it or not, always is.
C35_FetchedAgainUnlessCached ==
  [][ /\ pending.kind = "detail" =>
           LET id == extractedArticles[pending.n].id
               key == CacheKeyOf(id)
           IN \A body \in DetailAnswers :
                DetailSettledWith(body) =>
                  LET data == DecodeDetail(pending.resp, body) IN
                  IF data = NoData
                  THEN localStorage' = localStorage
                  ELSE IF storageFails
                  THEN localStorage' = getCachedVoucherDataFull(localStorage, id, now).ls
                  ELSE /\ HasItem(localStorage', key)
                       /\ PayloadOf(localStorage'[key]) = data
                       /\ UnexpiredEntry(localStorage', id, now)
      /\ ResolutionStepB =>
           /\ \A i \in ServedFromCache :
                UnexpiredEntry(localStorage, discountArticles'[i].id, now)
           /\ IF pending'.kind = "detail"
              THEN ~UnexpiredEntry(localStorage, discountArticles'[pending'.n].id, now)
              ELSE pending' = NoPending
      /\ (pending.kind # "detail" /\ pending'.kind = "detail") => ResolutionStepB ]_vars

\* a later refresh, with the clock where it was and the store taking writes,
\* has served one candidate from the cache and is fetching the details of
\* another that was not cached
C35_FetchingUncachedAgain ==
  /\ variant = "B" /\ ~storageFails /\ now.day = 0
  /\ mode = "regular"
  /\ pending.kind = "detail"
  /\ cacheHits > 0
  /\ ~HasItem(localStorage, CacheKeyOf(extractedArticles[pending.n].id))

\* the custom vouchers have pairwise distinct ids
DistinctCustomIds(cv) ==
  \A i, j \in DOMAIN cv : cv[i].id = cv[j].id => i = j

\* C36: custom voucher ids are pairwise distinct in every reachable state,
\* so a confirmed delete removes exactly one voucher and an update changes
\* at most one, the others staying as they were and in their order.
C36_DistinctIdsOneVoucherHit ==
  [][ /\ DistinctCustomIds(customVouchers) /\ DistinctCustomIds(customVouchers')
      /\ (HandleDeleteConfirm /\ voucherToDelete # NoData) =>
           \E k \in DOMAIN customVouchers :
             /\ customVouchers[k].id = voucherToDelete.id
             /\ customVouchers' = SubSeq(customVouchers, 1, k - 1)
                                    \o SubSeq(customVouchers, k + 1, Len(customVouchers))
      /\ (UpdateCustomVoucher /\ customVouchers' # customVouchers) =>
           /\ Len(customVouchers') = Len(customVouchers)
           /\ Cardinality({k \in DOMAIN customVouchers :
                             customVouchers'[k] # customVouchers[k]}) = 1 ]_vars

\* C37: site A: the long press starts a hard refresh only if the press was
\* held, with no end event, for its four seconds: the timeout that fires is
\* the one of the press in progress, and after an end event (mouseup,
\* mouseleave, touchend, touchcancel) no timeout of a press is pending, for
\* every interleaving of start and end events, repeated starts included.
C37_OnlyHeldPressFires ==
  [][ /\ A_LongPressTimerFired =>
           /\ isLongPressing
           /\ longPressTimer
           /\ timersA = 1
      /\ A_EndLongPress => timersA' = 0 ]_vars

\* ------------------------------------------------------------------------
\* the key under which a candidate is hidden: hideVoucher(voucher.couponCode)
\* on site A, hideVoucher(voucher.id) on site B
HideKey(article) ==
  IF variant = "A" THEN OrElse(article.couponCode, <<>>) ELSE article.id

\* the candidates of a list that one hide (or one cache write) by key reaches
ReachedByKey(articles, i) ==
  {j \in DOMAIN articles :
     \/ articles[j].id = articles[i].id
     \/ HideKey(articles[j]) = HideKey(articles[i])}

\* C38: within one fetch cycle the ids of the extracted candidates are
\* pairwise distinct across both target pages, so that hiding or caching by
\* id reaches exactly one candidate of the list.
C38_CandidateIdsDistinct ==
  \A i \in DOMAIN discountArticles : ReachedByKey(discountArticles, i) = {i}

=============================================================================
